---- MODULE Spec2Model ----
(***************************************************************************)
(* Kisan-Salhakar, Punjab crop advisory: the yield predictor               *)
(* (src/prediction.py, models/prediction_function.py), the model loading   *)
(* and health endpoint of crop_prediction_api.py, and its parameter        *)
(* estimator and crop recommender.                                         *)
(*                                                                         *)
(* Numbers.  Python floats are modelled in fixed point: an integer n       *)
(* stands for n/1000 (20.5 degrees is 20500, the factor 1.96 is 1960).     *)
(* Text.  A feature name or dict key is a sequence of tokens               *)
(* (<<"crop_type", "_encoded">> is 'crop_type_encoded'), so that           *)
(* str.endswith and str.replace act on it; a crop name is a string with   *)
(* str.lower / str.title given on the names the model uses.                *)
(* Values.  A categorical dict value is [s |-> "Wheat"] (a str) or         *)
(* [i |-> 3] (an int); a numeric dict value is a fixed-point integer.      *)
(***************************************************************************)
EXTENDS Integers, Sequences, FiniteSets, TLC

VARIABLES
    artifact,        \* the file models/punjab_crop_yield_predictor_final.pkl
    model_package,   \* CropYieldPredictor.model_package
    model,           \* crop_prediction_api.model (global)
    model_metadata,  \* crop_prediction_api.model_metadata (global)
    started,         \* whether the startup event of crop_prediction_api has run
    random_state,    \* the state of the generator shared through the random module
    hash_seed,       \* the salt of str hashes, drawn when the process starts
    API_KEY,         \* fastapi_backend.API_KEY (global)
    api_key_file,    \* what the file .api_key holds, None when it does not exist
    gemini_model,    \* ai_bot services.gemini_model (global)
    chat_session,    \* ai_bot services.chat_session (global)
    genai,           \* how often configure_gemini ran and what it constructed
    call             \* the last call made: its operation, arguments and outcome

vars == <<artifact, model_package, model, model_metadata, started, random_state, hash_seed, API_KEY, api_key_file, gemini_model, chat_session, genai, call>>

(***************************************************************************)
(* Python values                                                           *)
(***************************************************************************)
None == [py |-> "None"]

\* configure_gemini has not run: no GenerativeModel and no chat session
\* has been constructed in this process
NothingConstructed == [calls |-> 0, models |-> 0, sessions |-> 0]

Max(a, b) == IF a >= b THEN a ELSE b

Min(a, b) == IF a <= b THEN a ELSE b

Abs(a) == IF a >= 0 THEN a ELSE -a

\* round(x, ndigits) on fixed-point x: to the nearest multiple of step
\* (step 100 is one decimal, 10 two decimals, 1000 none), ties to even.
Round(x, step) ==
    LET q == x \div step
        r == x % step
    IN  IF 2 * r < step THEN q * step
        ELSE IF 2 * r > step THEN (q + 1) * step
        ELSE IF q % 2 = 0 THEN q * step ELSE (q + 1) * step

\* x * num / den without overflowing 32 bits (den > 0, 0 <= num), floored.
MulDiv(x, num, den) == (x \div den) * num + ((x % den) * num) \div den

\* the remainder of x * num / den
MulMod(x, num, den) == ((x % den) * num) % den

\* round(x * num / den, ndigits): x * num / den to the nearest multiple of
\* step, ties to even; den * step stays below 2^31 / num.
MulDivRound(x, num, den, step) ==
    LET d == den * step
        q == MulDiv(x, num, d)
        r == MulMod(x, num, d)
    IN  IF 2 * r < d THEN q * step
        ELSE IF 2 * r > d THEN (q + 1) * step
        ELSE IF q % 2 = 0 THEN q * step ELSE (q + 1) * step

RECURSIVE Newton(_, _)
Newton(n, x) ==
    LET y == (x + n \div x) \div 2
    IN  IF y >= x THEN x ELSE Newton(n, y)

\* floor of the square root
ISqrt(n) == IF n <= 0 THEN 0 ELSE Newton(n, n)

RECURSIVE SeqSum(_)
SeqSum(s) == IF s = <<>> THEN 0 ELSE Head(s) + SeqSum(Tail(s))

\* numpy.std: the population standard deviation, sqrt(mean((x - mean)^2)).
\* The deviations are squared in hundredths, which keeps the sum in 32 bits.
NpStd(xs) ==
    LET n    == Len(xs)
        mean == SeqSum(xs) \div n
        sq   == [i \in 1..n |-> ((xs[i] - mean) \div 10) * ((xs[i] - mean) \div 10)]
    IN  10 * ISqrt(SeqSum(sq) \div n)

(***************************************************************************)
(* Text                                                                    *)
(***************************************************************************)
\* str.lower on the crop and season names the model uses
Lower(s) ==
    CASE s \in {"Wheat", "WHEAT"}  -> "wheat"
      [] s \in {"Rice", "RICE"}    -> "rice"
      [] s \in {"Cotton"}          -> "cotton"
      [] s \in {"Maize"}           -> "maize"
      [] s \in {"Sugarcane"}       -> "sugarcane"
      [] s \in {"Mustard"}         -> "mustard"
      [] s \in {"Barley"}          -> "barley"
      [] s \in {"Potato"}          -> "potato"
      [] s \in {"Corn"}            -> "corn"
      [] s \in {"Soybean"}         -> "soybean"
      [] s \in {"Peas"}            -> "peas"
      [] s \in {"Tomato"}          -> "tomato"
      [] s \in {"Rabi", "RABI"}    -> "rabi"
      [] s \in {"Kharif", "KHARIF"} -> "kharif"
      [] s \in {"Annual"}          -> "annual"
      [] s \in {"Unknown"}         -> "unknown"
      [] OTHER                     -> s

\* str.title on the crop database's keys
Title(s) ==
    CASE s = "wheat"     -> "Wheat"
      [] s = "rice"      -> "Rice"
      [] s = "cotton"    -> "Cotton"
      [] s = "maize"     -> "Maize"
      [] s = "sugarcane" -> "Sugarcane"
      [] s = "mustard"   -> "Mustard"
      [] s = "barley"    -> "Barley"
      [] s = "potato"    -> "Potato"
      [] OTHER           -> s

\* a one-token name
K(s) == <<s>>

\* feature.endswith('_encoded')
EndsWithEncoded(feature) ==
    Len(feature) > 0 /\ feature[Len(feature)] = "_encoded"

\* feature.replace('_encoded', ''): every occurrence is removed
RECURSIVE ReplaceEncoded(_)
ReplaceEncoded(feature) ==
    IF feature = <<>> THEN <<>>
    ELSE IF Head(feature) = "_encoded" THEN ReplaceEncoded(Tail(feature))
    ELSE <<Head(feature)>> \o ReplaceEncoded(Tail(feature))

Digit(n) ==
    CASE n = 0 -> "0" [] n = 1 -> "1" [] n = 2 -> "2" [] n = 3 -> "3"
      [] n = 4 -> "4" [] n = 5 -> "5" [] n = 6 -> "6" [] n = 7 -> "7"
      [] n = 8 -> "8" [] n = 9 -> "9"

\* str(v) of a categorical value: a str is itself, an int (0..9) its digit
Str(v) == IF "s" \in DOMAIN v THEN v.s ELSE Digit(v.i)

\* dict.get(key, default)
Get(d, key, default) == IF key \in DOMAIN d THEN d[key] ELSE default

\* {**a, **b}
Merge(a, b) ==
    [k \in DOMAIN a \cup DOMAIN b |-> IF k \in DOMAIN b THEN b[k] ELSE a[k]]

(***************************************************************************)
(* The model artifact and the inputs of a prediction                       *)
(***************************************************************************)
\* feature name lists a trained package may carry
Schemas ==
    { <<K("temperature"), <<"crop_type", "_encoded">>, <<"district", "_encoded">>,
        K("heat_stress")>>,
      <<<<"crop_type", "_encoded">>, K("elevation"), <<"soil_type", "_encoded">>,
        K("N_P_ratio"), K("rainfall")>>,
      <<<<"district", "_encoded">>, K("humidity")>> }

\* label encoders: column -> the classes the encoder was fitted on, sorted
EncoderSets ==
    { (K("crop_type") :> <<"Rice", "Wheat">>) @@ (K("district") :> <<"Amritsar", "Ludhiana">>),
      (K("crop_type") :> <<"1", "Cotton", "Wheat">>) }

\* StandardScaler parameters, or None
Scalers == { None, [mean |-> 1000, scale |-> 2000] }

\* the regression model: an opaque object, with or without estimators_
Models ==
    { [name |-> "RandomForestRegressor", has_estimators |-> TRUE],
      [name |-> "LinearRegression", has_estimators |-> FALSE] }

\* the package model_training.save_model pickles
Packages ==
    { [kind |-> "package", model |-> m, model_name |-> m.name, feature_names |-> f,
       label_encoders |-> e, scaler |-> sc, use_scaling |-> us] :
      m \in Models, f \in Schemas, e \in EncoderSets, sc \in Scalers, us \in BOOLEAN }

\* what the artifact file can be: absent, unreadable (open raises), not a
\* pickle (pickle.load raises), a pickled package, a pickled dict that has
\* none of the package's keys, a pickled dict holding the package's keys but
\* 'model', or a pickled object that is no dict at all.
Artifacts ==
    { [kind |-> "missing"], [kind |-> "unreadable"], [kind |-> "corrupt"],
      [kind |-> "empty_dict"], [kind |-> "not_a_dict"] }
    \cup Packages
    \cup { [kind |-> "no_model_key", model_name |-> p.model_name,
            feature_names |-> p.feature_names, label_encoders |-> p.label_encoders,
            scaler |-> p.scaler, use_scaling |-> p.use_scaling] :
           p \in { q \in Packages : q.model.has_estimators /\ q.scaler = None /\ ~q.use_scaling } }

\* the sample input of prediction.py's __main__
SampleInput ==
    (K("ndvi_mean") :> 750) @@ (K("ndwi_mean") :> 300) @@ (K("temperature") :> 20000)
    @@ (K("humidity") :> 65000) @@ (K("rainfall") :> 2000) @@ (K("pH") :> 7200)
    @@ (K("organic_carbon") :> 800) @@ (K("N_available") :> 220000)
    @@ (K("P_available") :> 25000) @@ (K("K_available") :> 300000)
    @@ (K("crop_type") :> [s |-> "Wheat"]) @@ (<<"crop_type", "_encoded">> :> 0)
    @@ (K("district") :> [s |-> "Ludhiana"])

EmptyDict == [k \in {} |-> 0]

\* the input dicts of a call: the sample, the empty dict, and dicts that
\* leave keys out or carry categories no encoder has seen
Inputs ==
    { SampleInput,
      EmptyDict,
      (K("crop_type") :> [s |-> "Tomato"]) @@ (K("district") :> [s |-> "Ludhiana"])
        @@ (K("temperature") :> 38000) @@ (K("humidity") :> 30000),
      (K("crop_type") :> [s |-> "wheat"]) @@ (K("rainfall") :> 500),
      (K("crop_type") :> [s |-> "RICE"]) @@ (K("district") :> [s |-> "Moga"])
        @@ (K("temperature") :> 30000) @@ (K("rainfall") :> 1000) @@ (K("pH") :> 6000),
      (K("crop_type") :> [i |-> 1]) @@ (K("temperature") :> 8000)
        @@ (K("P_available") :> 60000) @@ (K("elevation") :> 230000) }

\* greatest spread of the sub-estimators' predictions around 3000.0
MaxSpread == 2

\* what the opaque model does in one call: it raises somewhere (fail), or
\* predict returns p and the sub-estimators return subs
ModelOutputs ==
    [ fail : {"none"},
      p    : {-500000, 0, 420000, 3499950, 4500000, 6000000},
      subs : { <<3000000, 3000000>> }
             \cup { <<3000000 - k * 100000, 3000000 + k * 150000, 3000000>> : k \in 1..MaxSpread } ]
    \cup [ fail : {"scaler", "model", "estimator"}, p : {4500000}, subs : { <<3000000, 3000000>> } ]

(***************************************************************************)
(* src/prediction.py: CropYieldPredictor                                   *)
(***************************************************************************)
\* CropYieldPredictor.engineer_features
engineer_features(input_data) ==
    LET ndvi    == Get(input_data, K("ndvi_mean"), 600)
        ndwi    == Get(input_data, K("ndwi_mean"), 300)
        vegetation_health_score == (ndvi * 7 + ndwi * 3) \div 10
        oc      == Get(input_data, K("organic_carbon"), 500)
        n_avail == Get(input_data, K("N_available"), 180000)
        p_avail == Get(input_data, K("P_available"), 15000)
        soil_fertility_index == (oc * 4) \div 10 + n_avail \div 1000 + p_avail \div 100
        temp    == Get(input_data, K("temperature"), 25000)
        heat_stress == Max(0, (temp - 35000) \div 10)
        cold_stress == Max(0, (10000 - temp) \div 10)
        rainfall == Get(input_data, K("rainfall"), 0)
        humidity == Get(input_data, K("humidity"), 70000)
        drought_risk == IF rainfall < 1000 /\ humidity < 40000
                        THEN 1000 - humidity \div 100 ELSE 0
        k_avail == Get(input_data, K("K_available"), 250000)
        n_p_ratio == (n_avail * 1000) \div (p_avail + 1000)
        n_k_ratio == (n_avail * 1000) \div (k_avail + 1000)
        p_k_ratio == (p_avail * 1000) \div (k_avail + 1000)
        yield_potential_score ==
            (vegetation_health_score * 35 + soil_fertility_index * 40
             + (1000 - heat_stress - drought_risk) * 25) \div 100
        crop_type_encoded == Get(input_data, <<"crop_type", "_encoded">>, 0)
        is_kharif == IF crop_type_encoded \in {1000, 2000} THEN 1000 ELSE 0
        is_rabi == 1000 - is_kharif
    IN  Merge(input_data,
              (K("vegetation_health_score") :> vegetation_health_score)
              @@ (K("soil_fertility_index") :> soil_fertility_index)
              @@ (K("heat_stress") :> heat_stress)
              @@ (K("cold_stress") :> cold_stress)
              @@ (K("drought_risk") :> drought_risk)
              @@ (K("yield_potential_score") :> yield_potential_score)
              @@ (K("N_P_ratio") :> n_p_ratio)
              @@ (K("N_K_ratio") :> n_k_ratio)
              @@ (K("P_K_ratio") :> p_k_ratio)
              @@ (K("is_kharif") :> is_kharif)
              @@ (K("is_rabi") :> is_rabi))

\* the encoding with an unseen category given the last class's index
EncodeOrLast(classes, x) ==
    IF \E i \in 1..Len(classes) : classes[i] = x
    THEN 1000 * ((CHOOSE i \in 1..Len(classes) : classes[i] = x) - 1)
    ELSE 1000 * (Len(classes) - 1)

\* LabelEncoder.transform([x])[0] inside try/except: the index of x among
\* the fitted classes, and 0 when transform raises on an unseen x
EncodeOrZero(classes, x) ==
    IF \E i \in 1..Len(classes) : classes[i] = x
    THEN 1000 * ((CHOOSE i \in 1..Len(classes) : classes[i] = x) - 1)
    ELSE 0

\* one pass of the loop over feature_names in predict_yield: the value
\* appended for `feature`, and whether it is recorded as missing
FeatureEntry(feature, encoders, complete_input) ==
    IF EndsWithEncoded(feature)
    THEN LET original_col == ReplaceEncoded(feature)
         IN  IF original_col \in DOMAIN encoders /\ original_col \in DOMAIN complete_input
             THEN [value   |-> EncodeOrZero(encoders[original_col],
                                            Str(complete_input[original_col])),
                   missing |-> FALSE]
             ELSE [value |-> 0, missing |-> TRUE]
    ELSE IF feature \in DOMAIN complete_input
         THEN [value |-> complete_input[feature], missing |-> FALSE]
         ELSE [value |-> 0, missing |-> TRUE]

\* the loop with a missing feature recorded but given no entry
RECURSIVE BuildFeaturesDropMissing(_, _, _, _)
BuildFeaturesDropMissing(feature_names, encoders, complete_input, acc) ==
    IF feature_names = <<>> THEN acc
    ELSE LET feature == Head(feature_names)
             e       == FeatureEntry(feature, encoders, complete_input)
         IN  BuildFeaturesDropMissing(Tail(feature_names), encoders, complete_input,
                 [features         |-> IF e.missing THEN acc.features
                                       ELSE Append(acc.features, e.value),
                  missing_features |-> IF e.missing
                                       THEN Append(acc.missing_features, feature)
                                       ELSE acc.missing_features])

\* the loop of predict_yield over feature_names: features and
\* missing_features grow by append, in the order of the schema
RECURSIVE BuildFeatures(_, _, _, _)
BuildFeatures(feature_names, encoders, complete_input, acc) ==
    IF feature_names = <<>> THEN acc
    ELSE LET feature == Head(feature_names)
             e       == FeatureEntry(feature, encoders, complete_input)
         IN  BuildFeatures(Tail(feature_names), encoders, complete_input,
                 [features         |-> Append(acc.features, e.value),
                  missing_features |-> IF e.missing
                                       THEN Append(acc.missing_features, feature)
                                       ELSE acc.missing_features])

\* scaler.transform applied when use_scaling and scaler is not None
ApplyScaling(features, scaler, use_scaling) ==
    IF use_scaling /\ scaler # None
    THEN [i \in 1..Len(features) |-> ((features[i] - scaler.mean) * 1000) \div scaler.scale]
    ELSE features

\* the prediction interval of predict_yield: prediction -/+ 1.96 std, with
\* the std of the sub-estimators' predictions for an ensemble and 10% of
\* the prediction otherwise
PredictionInterval(prediction, has_estimators, predictions) ==
    LET prediction_std == IF has_estimators THEN NpStd(predictions)
                          ELSE prediction \div 10
    IN  [lower_bound |-> prediction - MulDiv(prediction_std, 1960, 1000),
         upper_bound |-> prediction + MulDiv(prediction_std, 1960, 1000)]

\* the categorisation with the High and Medium bands of wheat exchanged
CategorizeYieldBandsSwapped(yield_val, crop_type) ==
    IF Lower(crop_type) = "wheat"
    THEN IF yield_val >= 4500000 THEN "Medium"
         ELSE IF yield_val >= 3500000 THEN "High" ELSE "Low"
    ELSE IF Lower(crop_type) = "rice"
    THEN IF yield_val >= 6000000 THEN "High"
         ELSE IF yield_val >= 5000000 THEN "Medium" ELSE "Low"
    ELSE IF Lower(crop_type) = "cotton"
    THEN IF yield_val >= 500000 THEN "High"
         ELSE IF yield_val >= 350000 THEN "Medium" ELSE "Low"
    ELSE "Unknown"

\* the categorisation with the crop type compared as written, not lower-cased
CategorizeYieldAsWritten(yield_val, crop_type) ==
    IF crop_type = "wheat"
    THEN IF yield_val >= 4500000 THEN "High"
         ELSE IF yield_val >= 3500000 THEN "Medium" ELSE "Low"
    ELSE IF crop_type = "rice"
    THEN IF yield_val >= 6000000 THEN "High"
         ELSE IF yield_val >= 5000000 THEN "Medium" ELSE "Low"
    ELSE IF crop_type = "cotton"
    THEN IF yield_val >= 500000 THEN "High"
         ELSE IF yield_val >= 350000 THEN "Medium" ELSE "Low"
    ELSE "Unknown"

\* CropYieldPredictor._categorize_yield, crop_type a str
_categorize_yield(yield_val, crop_type) ==
    IF Lower(crop_type) = "wheat"
    THEN IF yield_val >= 4500000 THEN "High"
         ELSE IF yield_val >= 3500000 THEN "Medium" ELSE "Low"
    ELSE IF Lower(crop_type) = "rice"
    THEN IF yield_val >= 6000000 THEN "High"
         ELSE IF yield_val >= 5000000 THEN "Medium" ELSE "Low"
    ELSE IF Lower(crop_type) = "cotton"
    THEN IF yield_val >= 500000 THEN "High"
         ELSE IF yield_val >= 350000 THEN "Medium" ELSE "Low"
    ELSE "Unknown"

\* whether _get_recommendations raises KeyError: features['temperature'] is
\* read for wheat, and for cotton, without a default
RecommendationsRaise(features, crop_type) ==
    /\ K("temperature") \notin DOMAIN features
    /\ Lower(crop_type) \in {"wheat", "cotton"}

\* CropYieldPredictor._get_recommendations, where it does not raise
_get_recommendations(features, crop_type) ==
    LET pH   == Get(features, K("pH"), 7000)
        r1   == IF features[K("heat_stress")] > 200 THEN <<"heat stress">> ELSE <<>>
        r2   == IF features[K("drought_risk")] > 200 THEN <<"drought risk">> ELSE <<>>
        r3   == IF features[K("soil_fertility_index")] < 500 THEN <<"low fertility">> ELSE <<>>
        r4   == IF features[K("vegetation_health_score")] < 400 THEN <<"poor vegetation">> ELSE <<>>
        r5   == IF features[K("N_P_ratio")] > 15000 THEN <<"high N:P">>
                ELSE IF features[K("N_P_ratio")] < 5000 THEN <<"low N:P">> ELSE <<>>
        r6   == IF pH < 6500 THEN <<"acidic soil">>
                ELSE IF pH > 8500 THEN <<"alkaline soil">> ELSE <<>>
        r7   == IF Lower(crop_type) = "wheat" /\ features[K("temperature")] > 25000
                THEN <<"wheat temperature">>
                ELSE IF Lower(crop_type) = "rice" /\ Get(features, K("rainfall"), 0) < 2000
                THEN <<"rice water">>
                ELSE IF Lower(crop_type) = "cotton" /\ features[K("temperature")] < 20000
                THEN <<"cotton temperature">>
                ELSE <<>>
        recommendations == r1 \o r2 \o r3 \o r4 \o r5 \o r6 \o r7
    IN  IF recommendations # <<>> THEN recommendations
        ELSE IF features[K("yield_potential_score")] > 700 THEN <<"excellent conditions">>
        ELSE <<"good conditions">>

\* an error value that also carries a success field
ErrorResultWithYield(message) == [error |-> message, predicted_yield |-> 0]

\* the error value of predict_yield
ErrorResult(message) == [error |-> message]

\* the success value of predict_yield
SuccessResult(prediction, interval, yield_category, model_name, complete_input, recommendations, missing_features) ==
    [predicted_yield        |-> Round(prediction, 100),
     lower_bound            |-> Round(Max(0, interval.lower_bound), 100),
     upper_bound            |-> Round(interval.upper_bound, 100),
     confidence_interval    |-> "95%",
     yield_category         |-> yield_category,
     model_used             |-> model_name,
     engineered_features    |->
         [vegetation_health_score |-> Round(complete_input[K("vegetation_health_score")], 1),
          soil_fertility_index    |-> Round(complete_input[K("soil_fertility_index")], 1),
          yield_potential_score   |-> Round(complete_input[K("yield_potential_score")], 1),
          heat_stress             |-> Round(complete_input[K("heat_stress")], 1),
          drought_risk            |-> Round(complete_input[K("drought_risk")], 1)],
     recommendations        |-> recommendations,
     missing_features_count |-> Len(missing_features)]

\* bool(self.model_package): None and the empty dict are falsy
Truthy(package) == package # None /\ package.kind # "empty_dict"

\* whether the five subscripts package['model'], ['feature_names'],
\* ['label_encoders'], ['scaler'], ['use_scaling'] all succeed
HasPackageKeys(package) == package.kind = "package"

\* the try block of predict_yield once the package's keys are read: what
\* the call leaves behind, `out` being what the opaque model does
PredictYieldTry(package, input_data, out) ==
    LET complete_input == engineer_features(input_data)
        built   == BuildFeatures(package.feature_names, package.label_encoders,
                                 complete_input,
                                 [features |-> <<>>, missing_features |-> <<>>])
        scaling == package.use_scaling /\ package.scaler # None
        interval == PredictionInterval(out.p, package.model.has_estimators, out.subs)
        crop_type == Get(input_data, K("crop_type"), [s |-> "Unknown"])
        raises  == \/ scaling /\ out.fail = "scaler"
                   \/ out.fail = "model"
                   \/ package.model.has_estimators /\ out.fail = "estimator"
                   \/ "s" \notin DOMAIN crop_type
                   \/ RecommendationsRaise(complete_input, crop_type.s)
    IN  [assembled        |-> TRUE,
         features         |-> built.features,
         missing_features |-> built.missing_features,
         feature_names    |-> package.feature_names,
         label_encoders   |-> package.label_encoders,
         complete_input   |-> complete_input,
         scaled           |-> ApplyScaling(built.features, package.scaler, package.use_scaling),
         outcome          |-> "returned",
         result           |->
            IF raises THEN ErrorResult("Prediction failed")
            ELSE SuccessResult(out.p, interval,
                               _categorize_yield(out.p, crop_type.s),
                               package.model_name, complete_input,
                               _get_recommendations(complete_input, crop_type.s),
                               built.missing_features)]

\* what a call that never assembled a feature vector leaves behind
NotAssembled(outcome, result) ==
    [assembled |-> FALSE, features |-> <<>>, missing_features |-> <<>>,
     feature_names |-> <<>>, label_encoders |-> EmptyDict, complete_input |-> EmptyDict,
     scaled |-> <<>>, outcome |-> outcome, result |-> result]

\* CropYieldPredictor.predict_yield on a predictor holding `package`
predict_yield(package, input_data, out) ==
    IF ~Truthy(package) THEN NotAssembled("returned", ErrorResult("Model not loaded"))
    ELSE IF ~HasPackageKeys(package)
    THEN NotAssembled("returned", ErrorResult("Prediction failed"))
    ELSE PredictYieldTry(package, input_data, out)

\* CropYieldPredictor.load_model: the value of self.model_package afterwards.
\* pickle.load's result is assigned before model_package['model_name'] is
\* read, so an object without that key stays in place.
load_model(file) ==
    IF file.kind \in {"missing", "unreadable", "corrupt"} THEN None ELSE file

(***************************************************************************)
(* models/prediction_function.py                                           *)
(***************************************************************************)
\* one pass of the loop over feature_names in prediction_function: the
\* value appended for `feature`; the raw input value goes to the encoder,
\* which raises (and gives 0) on anything but one of its classes
FeatureEntryModels(feature, encoders, input_data) ==
    IF EndsWithEncoded(feature)
    THEN LET original_col == ReplaceEncoded(feature)
         IN  IF original_col \in DOMAIN encoders /\ original_col \in DOMAIN input_data
             THEN IF "s" \in DOMAIN input_data[original_col]
                  THEN EncodeOrZero(encoders[original_col], input_data[original_col].s)
                  ELSE 0
             ELSE 0
    ELSE Get(input_data, feature, 0)

\* the loop of prediction_function over feature_names
RECURSIVE BuildFeaturesModels(_, _, _, _)
BuildFeaturesModels(feature_names, encoders, input_data, features) ==
    IF feature_names = <<>> THEN features
    ELSE BuildFeaturesModels(Tail(feature_names), encoders, input_data,
             Append(features,
                    FeatureEntryModels(Head(feature_names), encoders, input_data)))

\* the value prediction_function.predict_crop_yield returns
ModelsResult(prediction, interval, model_name) ==
    [predicted_yield     |-> Round(prediction, 100),
     lower_bound         |-> Round(Max(0, interval.lower_bound), 100),
     upper_bound         |-> Round(interval.upper_bound, 100),
     confidence_interval |-> "95%",
     model_used          |-> model_name]

\* models/prediction_function.predict_crop_yield: no statement of it is
\* inside a try but the encoder's transform
predict_crop_yield_models(file, input_data, out) ==
    IF file.kind # "package" THEN NotAssembled("raised", None)
    ELSE LET features == BuildFeaturesModels(file.feature_names, file.label_encoders,
                                             input_data, <<>>)
             scaling  == file.use_scaling /\ file.scaler # None
             raises   == \/ scaling /\ out.fail = "scaler"
                         \/ out.fail = "model"
                         \/ file.model.has_estimators /\ out.fail = "estimator"
         IN  [assembled        |-> TRUE,
              features         |-> features,
              missing_features |-> <<>>,
              feature_names    |-> file.feature_names,
              label_encoders   |-> file.label_encoders,
              complete_input   |-> input_data,
              scaled           |-> ApplyScaling(features, file.scaler, file.use_scaling),
              outcome          |-> IF raises THEN "raised" ELSE "returned",
              result           |->
                 IF raises THEN None
                 ELSE ModelsResult(out.p,
                          PredictionInterval(out.p, file.model.has_estimators, out.subs),
                          file.model_name)]

\* src/prediction.predict_crop_yield: a fresh predictor, then predict_yield
predict_crop_yield_src(file, input_data, out) ==
    predict_yield(load_model(file), input_data, out)

(***************************************************************************)
(* The predictor as a state machine                                        *)
(***************************************************************************)
\* no CropYieldPredictor has been constructed yet
NoPredictor == [py |-> "unconstructed"]

\* no call is in progress: the last result has been handed to the caller
Idle == [op |-> "idle"]

InitPredictor ==
    /\ artifact \in Artifacts
    /\ model_package = NoPredictor
    /\ model = None
    /\ model_metadata = EmptyDict
    /\ started = FALSE
    /\ random_state = 0
    /\ hash_seed = 0
    /\ API_KEY = None
    /\ api_key_file = None
    /\ gemini_model = None
    /\ chat_session = None
    /\ genai = NothingConstructed
    /\ call = Idle

\* CropYieldPredictor(model_path)
Construct ==
    /\ call = Idle
    /\ model_package = NoPredictor
    /\ model_package' = load_model(artifact)
    /\ UNCHANGED <<artifact, model, model_metadata, started, random_state, hash_seed, API_KEY, api_key_file, gemini_model, chat_session, genai, call>>

\* predictor.predict_yield(input_data)
PredictYield ==
    /\ call = Idle
    /\ model_package # NoPredictor
    /\ \E input_data \in Inputs, out \in ModelOutputs :
          call' = [op |-> "predict_yield", input_data |-> input_data, out |-> out]
                  @@ predict_yield(model_package, input_data, out)
    /\ UNCHANGED <<artifact, model_package, model, model_metadata, started, random_state, hash_seed, API_KEY, api_key_file, gemini_model, chat_session, genai>>

\* src/prediction.predict_crop_yield(input_data, model_path)
PredictCropYieldSrc ==
    /\ call = Idle
    /\ \E input_data \in Inputs, out \in ModelOutputs :
          call' = [op |-> "predict_crop_yield_src", input_data |-> input_data, out |-> out]
                  @@ predict_crop_yield_src(artifact, input_data, out)
    /\ UNCHANGED <<artifact, model_package, model, model_metadata, started, random_state, hash_seed, API_KEY, api_key_file, gemini_model, chat_session, genai>>

\* models/prediction_function.predict_crop_yield(input_data, model_path)
PredictCropYieldModels ==
    /\ call = Idle
    /\ \E input_data \in Inputs, out \in ModelOutputs :
          call' = [op |-> "predict_crop_yield_models", input_data |-> input_data, out |-> out]
                  @@ predict_crop_yield_models(artifact, input_data, out)
    /\ UNCHANGED <<artifact, model_package, model, model_metadata, started, random_state, hash_seed, API_KEY, api_key_file, gemini_model, chat_session, genai>>

\* the caller takes the result: a PredictionResult is returned once
Return ==
    /\ call # Idle
    /\ call' = Idle
    /\ UNCHANGED <<artifact, model_package, model, model_metadata, started, random_state, hash_seed, API_KEY, api_key_file, gemini_model, chat_session, genai>>

NextPredictor ==
    \/ Construct
    \/ PredictYield
    \/ PredictCropYieldSrc
    \/ PredictCropYieldModels
    \/ Return

SpecPredictor == InitPredictor /\ [][NextPredictor]_vars

(***************************************************************************)
(* Properties of the predictor                                             *)
(***************************************************************************)
PredictorOps == {"predict_yield", "predict_crop_yield_src", "predict_crop_yield_models"}

\* the last call returned a prediction, not an error value
Succeeded ==
    /\ call.op \in PredictorOps
    /\ call.outcome = "returned"
    /\ "error" \notin DOMAIN call.result

\* C1: every successful prediction result has
\* lower_bound <= predicted_yield <= upper_bound and lower_bound >= 0,
\* whatever point prediction (zero and negative ones included) and whatever
\* sub-estimator spread the model returns; the same holds for the
\* yield_range minimum and maximum of a successful POST /api/v1/predict.
C1_BoundsBracketPrediction ==
    /\ Succeeded =>
           /\ call.result.lower_bound <= call.result.predicted_yield
           /\ call.result.predicted_yield <= call.result.upper_bound
           /\ call.result.lower_bound >= 0
    /\ (call.op = "api_predict" /\ call.response.status = 200) =>
           /\ call.response.yield_range.minimum <= call.response.predicted_yield
           /\ call.response.predicted_yield <= call.response.yield_range.maximum
           /\ call.response.yield_range.minimum >= 0

\* the value the loop of the called entry point derives from one feature name
EntryValue(feature) ==
    IF call.op = "predict_crop_yield_models"
    THEN FeatureEntryModels(feature, call.label_encoders, call.complete_input)
    ELSE FeatureEntry(feature, call.label_encoders, call.complete_input).value

\* C2: the feature vector assembled before scaling has exactly
\* len(feature_names) entries, and its i-th entry is the value derived from
\* feature_names[i] alone, whatever keys the input dict holds.
C2_VectorFollowsSchema ==
    (call.op \in PredictorOps /\ call.assembled) =>
        /\ Len(call.features) = Len(call.feature_names)
        /\ \A i \in 1..Len(call.feature_names) :
              call.features[i] = EntryValue(call.feature_names[i])

\* C2 witness: a vector was assembled from a dict that lacks some of the
\* schema's columns, for a schema of at least four features
C2_Witness ==
    /\ call.op \in PredictorOps
    /\ call.assembled
    /\ Len(call.feature_names) >= 4
    /\ \E i \in 1..Len(call.feature_names) :
          /\ ~EndsWithEncoded(call.feature_names[i])
          /\ call.feature_names[i] \notin DOMAIN call.complete_input
    /\ \E i \in 1..Len(call.feature_names) : call.features[i] # 0

\* C4: an exception raised while scaling or invoking the model, once the
\* features are prepared, is returned as an error value and never leaves the
\* entry point: predict_yield, src/prediction.predict_crop_yield and
\* models/prediction_function.predict_crop_yield alike.
C4_ExceptionsNeverPropagate ==
    (call.op \in PredictorOps /\ call.assembled) => call.outcome = "returned"

SuccessFields ==
    {"predicted_yield", "lower_bound", "upper_bound", "confidence_interval",
     "yield_category", "recommendations"}

\* C5: every value predict_yield returns is an error object (the key
\* 'error' and no success field) or a success object (all six success
\* fields and no 'error' key), never a mix or a part.
C5_ResultShapes ==
    call.op \in {"predict_yield", "predict_crop_yield_src"} =>
        /\ call.outcome = "returned"
        /\ \/ /\ "error" \in DOMAIN call.result
              /\ DOMAIN call.result \cap SuccessFields = {}
           \/ /\ "error" \notin DOMAIN call.result
              /\ SuccessFields \subseteq DOMAIN call.result

\* C5 witness: predict_yield returned an error value for a failure that
\* happened after the feature vector was assembled
C5_Witness ==
    /\ call.op = "predict_yield"
    /\ call.assembled
    /\ call.out.fail = "model"
    /\ "error" \in DOMAIN call.result

\* whether the value of a schema feature fell back to the default 0:
\* the column or its encoder is absent, or the encoder has not seen the value
FellBack(feature, encoders, complete_input) ==
    IF EndsWithEncoded(feature)
    THEN LET original_col == ReplaceEncoded(feature)
         IN  \/ original_col \notin DOMAIN encoders
             \/ original_col \notin DOMAIN complete_input
             \/ ~\E j \in 1..Len(encoders[original_col]) :
                    encoders[original_col][j] = Str(complete_input[original_col])
    ELSE feature \notin DOMAIN complete_input

\* C6: in every successful result of predict_yield, missing_features_count
\* is the number of schema features whose value fell back to the default 0,
\* for any reason (column absent, encoder absent, category unseen).
C6_MissingCountsEveryFallback ==
    (Succeeded /\ call.op \in {"predict_yield", "predict_crop_yield_src"}) =>
        call.result.missing_features_count =
            Cardinality({ i \in 1..Len(call.feature_names) :
                            FellBack(call.feature_names[i], call.label_encoders,
                                     call.complete_input) })

\* whether the value of a schema feature cannot be resolved in the last
\* call: the encoder or the base column is absent, the encoder has not seen
\* the value it is given (str(value) in predict_yield, the raw value in
\* prediction_function), or the feature is absent from the merged input
Unresolved(feature) ==
    IF EndsWithEncoded(feature)
    THEN LET original_col == ReplaceEncoded(feature)
         IN  \/ original_col \notin DOMAIN call.label_encoders
             \/ original_col \notin DOMAIN call.complete_input
             \/ LET classes == call.label_encoders[original_col]
                     v       == call.complete_input[original_col]
                 IN  IF call.op = "predict_crop_yield_models"
                     THEN \/ "s" \notin DOMAIN v
                          \/ ~\E j \in 1..Len(classes) : classes[j] = v.s
                     ELSE ~\E j \in 1..Len(classes) : classes[j] = Str(v)
    ELSE feature \notin DOMAIN call.complete_input

\* whether a step after the feature loop fails in the last call: scaling,
\* the model, a sub-estimator, or the recommendations of predict_yield
LaterStepFails ==
    \/ call.out.fail # "none"
    \/ /\ call.op # "predict_crop_yield_models"
       /\ LET crop_type == Get(call.input_data, K("crop_type"), [s |-> "Unknown"])
          IN  \/ "s" \notin DOMAIN crop_type
              \/ RecommendationsRaise(call.complete_input, crop_type.s)

\* C13: while the feature vector is built, a schema feature whose value
\* cannot be resolved is set to 0 and no error is produced: an '_encoded'
\* feature whose encoder or base column is absent or whose value the encoder
\* has not seen, and any other feature absent from the merged input.
C13_UnresolvedFeatureIsZero ==
    (call.op \in PredictorOps /\ call.assembled) =>
        /\ \A i \in 1..Len(call.feature_names) :
              Unresolved(call.feature_names[i]) => call.features[i] = 0
        /\ ~LaterStepFails =>
              /\ call.outcome = "returned"
              /\ "error" \notin DOMAIN call.result

\* C13 witness: a prediction returned for a vector in which an unseen
\* category, an absent encoder and an absent feature were all set to 0
C13_Witness ==
    /\ Succeeded
    /\ call.assembled
    /\ \E i, j, k \in 1..Len(call.feature_names) :
          /\ EndsWithEncoded(call.feature_names[i])
          /\ ReplaceEncoded(call.feature_names[i]) \in DOMAIN call.label_encoders
          /\ ReplaceEncoded(call.feature_names[i]) \in DOMAIN call.complete_input
          /\ Unresolved(call.feature_names[i])
          /\ EndsWithEncoded(call.feature_names[j])
          /\ ReplaceEncoded(call.feature_names[j]) \notin DOMAIN call.label_encoders
          /\ ~EndsWithEncoded(call.feature_names[k])
          /\ Unresolved(call.feature_names[k])
    /\ \E i \in 1..Len(call.feature_names) : ~Unresolved(call.feature_names[i])

(***************************************************************************)
(* crop_prediction_api.py: model loading and the health endpoint           *)
(***************************************************************************)
\* create_dummy_model(): an instance of the local class DummyModel
create_dummy_model == [name |-> "DummyModel", has_estimators |-> FALSE, dummy |-> TRUE]

\* dict.get('model') of an unpickled dict: None when the key is absent
GetModel(file) == IF file.kind = "package" THEN file.model ELSE None

\* type(model).__name__
TypeName(m) == IF m = None THEN "NoneType" ELSE m.name

\* load_prediction_model(): the globals (model, model_metadata) it leaves
load_prediction_model(file) ==
    IF file.kind = "missing"
    THEN [model |-> create_dummy_model,
          model_metadata |-> [model_type |-> "DummyModel", loaded_at |-> "now",
                              version |-> "1.0.0-demo"]]
    ELSE IF file.kind \in {"unreadable", "corrupt", "not_a_dict"}
    THEN [model |-> create_dummy_model,
          model_metadata |-> [model_type |-> "DummyModel", loaded_at |-> "now",
                              version |-> "1.0.0-fallback"]]
    ELSE [model |-> GetModel(file),
          model_metadata |-> [model_type |-> TypeName(GetModel(file)),
                              loaded_at |-> "now", version |-> "1.0.0"]]

\* GET /health
health_check(m, metadata) ==
    [status      |-> "healthy",
     model_loaded |-> (m # None),
     model_type  |-> IF "model_type" \in DOMAIN metadata THEN metadata.model_type
                     ELSE "None",
     api_version |-> "1.0.0"]

\* the artifacts of a service: among the pickled dicts, those without a
\* scaler and with an encoder for district (the service reads 'model' only)
ApiArtifacts ==
    { a \in Artifacts :
        a.kind \in {"package", "no_model_key"} =>
            /\ a.scaler = None /\ ~a.use_scaling
            /\ K("district") \in DOMAIN a.label_encoders }

\* the states the shared generator of the random module can be in
RandomStates == 0..2

\* the salts a process can draw for its str hashes
HashSeeds == 0..1

\* the process has imported the module: the globals hold their initial
\* values, the generator and the hash salt are whatever the process drew
InitApi ==
    /\ artifact \in ApiArtifacts
    /\ model_package = NoPredictor
    /\ model = None
    /\ model_metadata = EmptyDict
    /\ started = FALSE
    /\ random_state \in RandomStates
    /\ hash_seed \in HashSeeds
    /\ API_KEY = None
    /\ api_key_file = None
    /\ gemini_model = None
    /\ chat_session = None
    /\ genai = NothingConstructed
    /\ call = Idle

\* startup_event(): load_prediction_model() runs before any request is served
Startup ==
    /\ ~started
    /\ call = Idle
    /\ started' = TRUE
    /\ model' = load_prediction_model(artifact).model
    /\ model_metadata' = load_prediction_model(artifact).model_metadata
    /\ UNCHANGED <<artifact, model_package, random_state, hash_seed, API_KEY, api_key_file, gemini_model, chat_session, genai, call>>

\* a GET /health request
HealthCheck ==
    /\ started
    /\ call = Idle
    /\ call' = [op |-> "health_check", response |-> health_check(model, model_metadata)]
    /\ UNCHANGED <<artifact, model_package, model, model_metadata, started, random_state, hash_seed, API_KEY, api_key_file, gemini_model, chat_session, genai>>

\* whether the stand-in model is in place
IsDummy(m) == m # None /\ "dummy" \in DOMAIN m

\* C3: after startup has run model loading, on every outcome of loading the
\* global model is not None and health reports model_loaded = true; and
\* health reports model_type 'DummyModel' exactly when the stand-in model
\* was substituted.
C3_ModelLoadedAfterStartup ==
    /\ started => model # None
    /\ call.op = "health_check" =>
          /\ call.response.model_loaded
          /\ IsDummy(model) <=> call.response.model_type = "DummyModel"

(***************************************************************************)
(* crop_prediction_api.py: the parameter estimator                         *)
(***************************************************************************)
rabi_crops == {"wheat", "barley", "mustard", "potato", "peas"}

kharif_crops == {"rice", "corn", "maize", "cotton", "soybean", "sugarcane"}

\* the season detection with the crop compared as written, not lower-cased
DetectSeasonAsWritten(crop) ==
    IF crop \in rabi_crops THEN [season |-> "rabi", sowing_month |-> 11]
    ELSE IF crop \in kharif_crops THEN [season |-> "kharif", sowing_month |-> 6]
    ELSE [season |-> "rabi", sowing_month |-> 11]

\* the season detection of estimate_parameters
DetectSeason(crop) ==
    IF Lower(crop) \in rabi_crops THEN [season |-> "rabi", sowing_month |-> 11]
    ELSE IF Lower(crop) \in kharif_crops THEN [season |-> "kharif", sowing_month |-> 6]
    ELSE [season |-> "rabi", sowing_month |-> 11]

\* estimate_parameters(crop, district, latitude, longitude, year): year is
\* None or [py |-> "int", v |-> n]; `now_year` is datetime.now().year, used
\* when year is None
estimate_parameters(crop, district, latitude, longitude, year, now_year) ==
    LET detected   == DetectSeason(crop)
        season     == detected.season
        lat_factor == ((latitude - 31000) * 4) \div 10
        lon_factor == ((longitude - 75500) * 3) \div 10
        temperature == IF season = "rabi" THEN 22000 + lat_factor ELSE 28000 + lat_factor
        humidity    == IF season = "rabi" THEN 70000 - Abs(lat_factor) * 2
                       ELSE 75000 - Abs(lat_factor)
        rainfall    == IF season = "rabi" THEN 550000 + lat_factor * 25
                       ELSE 800000 + lat_factor * 40
        wind_speed  == 8000 + Abs(lon_factor)
        pH          == 7100 + (latitude - 31000) \div 10
        organic_carbon == 600 + (lon_factor * 5) \div 100
        N_available == 270000 + lat_factor * 10
        P_available == 22000 + lon_factor * 2
        K_available == 310000 + lat_factor * 15
    IN  [year           |-> IF year = None THEN now_year ELSE year.v,
         latitude       |-> latitude,
         longitude      |-> longitude,
         season         |-> season,
         sowing_month   |-> detected.sowing_month,
         temperature    |-> Round(temperature, 100),
         humidity       |-> Round(humidity, 100),
         rainfall       |-> Round(rainfall, 1000),
         wind_speed     |-> Round(wind_speed, 100),
         pH             |-> Round(pH, 100),
         organic_carbon |-> Round(organic_carbon, 10),
         N_available    |-> Round(N_available, 100),
         P_available    |-> Round(P_available, 100),
         K_available    |-> Round(K_available, 100),
         ndvi_mean      |-> 750,
         ndwi_mean      |-> 350,
         blue           |-> 80,
         green          |-> 120,
         red            |-> 150,
         nir            |-> 400]

(***************************************************************************)
(* crop_prediction_api.py: the crop recommender                            *)
(***************************************************************************)
\* crop_database, in the order the dict is written (and iterated)
crop_database ==
    << [name |-> "wheat", base_yield |-> 1800, seasons |-> {"rabi"},
        water_requirement |-> "medium", profitability |-> "High",
        market_demand |-> "Very High"],
       [name |-> "rice", base_yield |-> 2200, seasons |-> {"kharif"},
        water_requirement |-> "high", profitability |-> "High",
        market_demand |-> "Very High"],
       [name |-> "cotton", base_yield |-> 900, seasons |-> {"kharif"},
        water_requirement |-> "medium", profitability |-> "Very High",
        market_demand |-> "High"],
       [name |-> "maize", base_yield |-> 2000, seasons |-> {"kharif", "rabi"},
        water_requirement |-> "medium", profitability |-> "Medium",
        market_demand |-> "High"],
       [name |-> "sugarcane", base_yield |-> 2800, seasons |-> {"annual"},
        water_requirement |-> "very_high", profitability |-> "Very High",
        market_demand |-> "High"],
       [name |-> "mustard", base_yield |-> 1100, seasons |-> {"rabi"},
        water_requirement |-> "low", profitability |-> "Medium",
        market_demand |-> "Medium"],
       [name |-> "barley", base_yield |-> 1600, seasons |-> {"rabi"},
        water_requirement |-> "low", profitability |-> "Medium",
        market_demand |-> "Medium"],
       [name |-> "potato", base_yield |-> 2500, seasons |-> {"rabi"},
        water_requirement |-> "medium", profitability |-> "High",
        market_demand |-> "Very High"] >>

\* list[:n]
Take(s, n) == SubSeq(s, 1, Min(n, Len(s)))

\* get_crop_specific_tips: the crop's six tips (three generic ones for a
\* crop outside the tips database), then the tips for the location
get_crop_specific_tips(crop_name, latitude, longitude, farm_size) ==
    LET known == {crop_database[i].name : i \in 1..Len(crop_database)}
        crop_tips == IF Lower(crop_name) \in known
                     THEN [i \in 1..6 |-> <<Lower(crop_name), i>>]
                     ELSE [i \in 1..3 |-> <<"generic", i>>]
        t1 == IF latitude > 31500 THEN << <<"northern location", 0>> >>
              ELSE IF latitude < 30500 THEN << <<"southern location", 0>> >> ELSE <<>>
        t2 == IF farm_size >= 50000 THEN << <<"mechanization", 0>> >>
              ELSE IF farm_size <= 5000 THEN << <<"intensive cultivation", 0>> >> ELSE <<>>
    IN  crop_tips \o t1 \o t2

\* the score with the farm size bonus only above 10 acres
SuitabilityScoreAboveTen(latitude, longitude, farm_size) ==
    700
    + (IF 30500 <= latitude /\ latitude <= 31500 /\ 75000 <= longitude /\ longitude <= 76500
       THEN 200 ELSE 0)
    + (IF farm_size > 10000 THEN 100 ELSE 0)

\* the suitability score before the cap and the rounding: base 0.7, the
\* central Punjab bonus, the farm size bonus
SuitabilityScore(latitude, longitude, farm_size) ==
    700
    + (IF 30500 <= latitude /\ latitude <= 31500 /\ 75000 <= longitude /\ longitude <= 76500
       THEN 200 ELSE 0)
    + (IF farm_size >= 10000 THEN 100 ELSE 0)

\* round(base_yield * lat_factor * size_factor, 1)
ExpectedYield(base_yield, latitude, farm_size) ==
    LET lat_factor  == 1000 + ((latitude - 31000) * 2) \div 100
        size_factor == Min(1200, 1000 + (farm_size - 5000) \div 100)
    IN  MulDivRound(base_yield * lat_factor, size_factor, 1000, 100)

\* the reasons list of one recommendation, before [:3]
Reasons(crop_data, latitude, farm_size) ==
    (IF crop_data.profitability \in {"High", "Very High"} THEN <<"profitability">> ELSE <<>>)
    \o (IF crop_data.market_demand \in {"High", "Very High"} THEN <<"market demand">> ELSE <<>>)
    \o (IF crop_data.water_requirement = "low" THEN <<"water efficient">> ELSE <<>>)
    \o (IF latitude > 31000 /\ crop_data.name \in {"wheat", "rice"}
        THEN <<"climate match">> ELSE <<>>)
    \o (IF farm_size >= 20000 /\ crop_data.name \in {"cotton", "sugarcane"}
        THEN <<"large farm">> ELSE <<>>)

\* the skip test with the current crop compared as written
SkippedAsWritten(crop_data, current_crop, current_season) ==
    \/ crop_data.name = current_crop
    \/ current_season \notin crop_data.seasons /\ "annual" \notin crop_data.seasons

\* whether the loop of get_crop_recommendations skips a crop: it is the
\* current crop, or it does not grow in the season (and is not annual)
Skipped(crop_data, current_crop, current_season) ==
    \/ Lower(crop_data.name) = Lower(current_crop)
    \/ current_season \notin crop_data.seasons /\ "annual" \notin crop_data.seasons

\* the CropRecommendation appended for one crop of the database
Recommendation(crop_data, latitude, longitude, farm_size) ==
    [crop_name         |-> Title(crop_data.name),
     suitability_score |-> Round(Min(1000, SuitabilityScore(latitude, longitude, farm_size)), 10),
     expected_yield    |-> ExpectedYield(crop_data.base_yield, latitude, farm_size),
     profitability     |-> crop_data.profitability,
     reasons           |-> Take(Reasons(crop_data, latitude, farm_size), 3),
     tips              |-> Take(get_crop_specific_tips(crop_data.name, latitude, longitude,
                                                       farm_size), 3)]

\* the loop over crop_database.items()
RECURSIVE Candidates(_, _, _, _, _, _)
Candidates(db, latitude, longitude, current_crop, farm_size, current_season) ==
    IF db = <<>> THEN <<>>
    ELSE (IF Skipped(Head(db), current_crop, current_season) THEN <<>>
          ELSE <<Recommendation(Head(db), latitude, longitude, farm_size)>>)
         \o Candidates(Tail(db), latitude, longitude, current_crop, farm_size,
                       current_season)

\* the sort key (x.suitability_score, x.expected_yield), compared as tuples
KeyLess(a, b) ==
    \/ a.suitability_score < b.suitability_score
    \/ a.suitability_score = b.suitability_score /\ a.expected_yield < b.expected_yield

\* x put into a list that is sorted by key, ascending (reverse=True left out)
RECURSIVE InsertAscending(_, _)
InsertAscending(sorted, x) ==
    IF sorted = <<>> THEN <<x>>
    ELSE IF KeyLess(x, Head(sorted)) THEN <<x>> \o sorted
    ELSE <<Head(sorted)>> \o InsertAscending(Tail(sorted), x)

\* x put into a list that is sorted by key, descending, behind the entries
\* whose key is not less than its own (list.sort is stable, also reversed)
RECURSIVE InsertDescending(_, _)
InsertDescending(sorted, x) ==
    IF sorted = <<>> THEN <<x>>
    ELSE IF KeyLess(Head(sorted), x) THEN <<x>> \o sorted
    ELSE <<Head(sorted)>> \o InsertDescending(Tail(sorted), x)

\* recommendations.sort(key=..., reverse=True)
RECURSIVE SortDescending(_, _)
SortDescending(list, sorted) ==
    IF list = <<>> THEN sorted
    ELSE SortDescending(Tail(list), InsertDescending(sorted, Head(list)))

\* get_crop_recommendations with a season test that lacks the clause for
\* annual crops: only the crops grown in the season are candidates
RecommendationsInSeasonOnly(latitude, longitude, current_crop, farm_size, season) ==
    LET InSeason(crop_data) == Lower(season) \in crop_data.seasons
    IN  Take(SortDescending(Candidates(SelectSeq(crop_database, InSeason), latitude,
                                       longitude, current_crop, farm_size,
                                       Lower(season)), <<>>), 5)

\* get_crop_recommendations(latitude, longitude, current_crop, farm_size, season)
get_crop_recommendations(latitude, longitude, current_crop, farm_size, season) ==
    Take(SortDescending(Candidates(crop_database, latitude, longitude, current_crop,
                                   farm_size, Lower(season)), <<>>), 5)

\* get_general_farming_tips(season, latitude, farm_size)
get_general_farming_tips(season, latitude, farm_size) ==
    LET tips == <<"soil testing", "crop rotation", "drip irrigation", "farm records", "FPO">>
        bySeason == IF Lower(season) = "kharif"
                    THEN <<"drainage", "weather forecasts", "plant protection">>
                    ELSE IF Lower(season) = "rabi"
                    THEN <<"irrigation schedule", "cooler weather", "harvesting equipment">>
                    ELSE <<>>
        byPlace  == IF latitude > 31000 THEN <<"quality wheat">> ELSE <<>>
        bySize   == IF farm_size >= 25000 THEN <<"contract farming">>
                    ELSE <<"value addition">>
    IN  Take(tips \o bySeason \o byPlace \o bySize, 6)

\* get_seasonal_advice(season, latitude, current_month): the advice chosen
\* by season and month, then the remark on the location
get_seasonal_advice(season, latitude, current_month) ==
    LET advice ==
            IF Lower(season) = "rabi"
            THEN IF current_month \in {10, 11} THEN <<"RABI SEASON">>
                 ELSE IF current_month \in {12, 1, 2} THEN <<"WINTER CARE">>
                 ELSE IF current_month \in {3, 4} THEN <<"HARVEST TIME">>
                 ELSE <<"FIELD PREPARATION">>
            ELSE IF Lower(season) = "kharif"
            THEN IF current_month \in {5, 6} THEN <<"KHARIF PREPARATION">>
                 ELSE IF current_month \in {7, 8, 9} THEN <<"MONSOON SEASON">>
                 ELSE IF current_month \in {10, 11} THEN <<"KHARIF HARVEST">>
                 ELSE <<"SUMMER SEASON">>
            ELSE <<>>
    IN  advice \o (IF latitude > 31500 THEN <<"northern Punjab">>
                   ELSE IF latitude < 30500 THEN <<"warm-season crops">> ELSE <<>>)

(***************************************************************************)
(* crop_prediction_api.py: POST /api/v1/predict                            *)
(***************************************************************************)
\* a number that stands for one text in the hash: the text of a float
\* ([f |-> 75000] is '75.0') or a str ([s |-> "wheat"])
TextCode(text) ==
    IF "f" \in DOMAIN text THEN text.f \div 50
    ELSE CASE text.s = "wheat" -> 11
           [] text.s = "rice" -> 23
           [] text.s = "tomato" -> 5
           [] OTHER -> 42

\* hash(text) of a str: fixed for the life of a process by its salt, and
\* different from one process to the next; never negative after the % the
\* callers apply
StrHash(seed, text) == (TextCode(text) * 31 + seed * 7919) % 100003

\* what random.random() returns in each state of the shared generator (in
\* thousandths, 0 <= r < 1000)
RandomDraw(state) == <<0, 500, 999>>[state + 1]

\* the state random.random() leaves
NextRandom(state) == (state + 1) % 3

\* base_yields of DummyModel.predict, in the order of the dict's keys
base_yields == <<1800, 2200, 2000, 2000, 900, 1300, 1600, 1100>>

\* the base yield DummyModel.predict picks for a row: the hash of the text
\* of row[2], the longitude, indexes the crops
DummyBaseYield(row, seed) ==
    LET crop_hash == StrHash(seed, [f |-> row[3]]) % Len(base_yields)
    IN  base_yields[(crop_hash % Len(base_yields)) + 1]

\* DummyModel.predict without the final max(800, min(3500, ...))
DummyPredictUnclamped(row, seed, r) ==
    LET base_yield  == DummyBaseYield(row, seed)
        lat_factor  == 1000 + ((row[2] - 31000) * 2) \div 100
        size_factor == Min(1200, 1000 + (row[1] - 5000) \div 100)
        variation   == 850 + (r * 300) \div 1000
    IN  MulDiv(MulDiv(base_yield * lat_factor, size_factor, 1000), variation, 1000)

\* DummyModel.predict on one row, `r` being the value random.random() returns
DummyPredict(row, seed, r) ==
    LET base_yield  == DummyBaseYield(row, seed)
        lat_factor  == 1000 + ((row[2] - 31000) * 2) \div 100
        size_factor == Min(1200, 1000 + (row[1] - 5000) \div 100)
        variation   == 850 + (r * 300) \div 1000
        predicted_yield == MulDiv(MulDiv(base_yield * lat_factor, size_factor, 1000),
                                  variation, 1000)
    IN  Max(800000, Min(3500000, predicted_yield))

\* the 39 values of the feature array, crop_encoded being
\* hash(request.crop.lower()) % 100
ApiFeatures(request, estimated_params, crop_encoded) ==
    << request.acres, request.latitude, request.longitude,
       estimated_params.temperature, estimated_params.humidity,
       estimated_params.rainfall, estimated_params.wind_speed, estimated_params.pH,
       estimated_params.organic_carbon, estimated_params.N_available,
       estimated_params.P_available, estimated_params.K_available,
       estimated_params.ndvi_mean, estimated_params.ndwi_mean, estimated_params.blue,
       estimated_params.green, estimated_params.red, estimated_params.nir,
       crop_encoded,
       IF estimated_params.season = "Kharif" THEN 1 ELSE 0,
       IF estimated_params.season = "Rabi" THEN 1 ELSE 0,
       IF estimated_params.season = "Summer" THEN 1 ELSE 0 >>
    \o [m \in 1..12 |-> IF estimated_params.sowing_month = m THEN 1 ELSE 0]
    \o << 2025, 1, 30000, 800, 1000 >>

\* the confidence intervals of the endpoint and their rounding
YieldRange(prediction) ==
    [minimum |-> Round(MulDiv(prediction, 850, 1000), 100),
     maximum |-> Round(MulDiv(prediction, 1150, 1000), 100)]

\* the confidence level of the endpoint
Confidence(prediction) ==
    IF prediction > 2000000 THEN "High"
    ELSE IF prediction > 1200000 THEN "Medium" ELSE "Low"

\* the HTTPException the except clause of the endpoint raises
PredictionFailed == [status |-> 500, detail |-> "Prediction failed"]

\* the body of POST /api/v1/predict: `m` and `metadata` are the globals,
\* `out` is what the loaded model does (out.fail, out.p), `now_month` is
\* datetime.now().month, `seed` and `state` are the hash salt and the shared
\* generator.  The 503 raised for model is None is an Exception too, so the
\* except clause turns it into 500.  The fields year and season of the
\* request are not read.  The result tells the response, which steps were
\* executed, the features handed to the model and the generator's new state.
predict_crop_yield_api(m, metadata, request, out, now_month, seed, state) ==
    IF m = None
    THEN [response |-> PredictionFailed, estimated |-> FALSE, predicted |-> FALSE,
          features |-> <<>>, random_state |-> state]
    ELSE LET estimated_params == estimate_parameters(request.crop, "Ludhiana",
                                     request.latitude, request.longitude,
                                     [py |-> "int", v |-> 2025], 2025)
             crop_encoded == StrHash(seed, [s |-> Lower(request.crop)]) % 100
             features   == ApiFeatures(request, estimated_params, crop_encoded)
             prediction == IF IsDummy(m) THEN DummyPredict(features, seed, RandomDraw(state))
                           ELSE out.p
             after      == IF IsDummy(m) THEN NextRandom(state) ELSE state
         IN  [estimated |-> TRUE, predicted |-> TRUE, features |-> features,
              random_state |-> after,
              response |->
                 IF ~IsDummy(m) /\ out.fail = "model" THEN PredictionFailed
                 ELSE [status               |-> 200,
                       success              |-> TRUE,
                       predicted_yield      |-> Round(prediction, 100),
                       yield_range          |-> YieldRange(prediction),
                       confidence           |-> Confidence(prediction),
                       user_input           |-> [crop |-> request.crop,
                                                 district |-> "Ludhiana",
                                                 farm_size_acres |-> request.acres,
                                                 latitude |-> request.latitude,
                                                 longitude |-> request.longitude],
                       estimated_parameters |-> [season |-> estimated_params.season,
                                                 temperature |-> estimated_params.temperature,
                                                 humidity |-> estimated_params.humidity,
                                                 rainfall |-> estimated_params.rainfall,
                                                 soil_pH |-> estimated_params.pH],
                       model_info           |-> [model_type |-> Get(metadata, "model_type", "Unknown"),
                                                 version |-> Get(metadata, "version", "1.0.0"),
                                                 units |-> "kg/acre"],
                       api_version          |-> "1.0.0",
                       crop_recommendations |->
                           get_crop_recommendations(request.latitude, request.longitude,
                                                    request.crop, request.acres,
                                                    estimated_params.season),
                       farming_tips         |->
                           get_general_farming_tips(estimated_params.season,
                                                    request.latitude, request.acres),
                       seasonal_advice      |->
                           get_seasonal_advice(estimated_params.season, request.latitude,
                                               now_month)]]

SINGLE_API_KEY == "punjab_crop_api_2024"

\* verify_api_key: whether the bearer token is let through
verify_api_key(token) == token = SINGLE_API_KEY

\* the HTTPException of verify_api_key
InvalidApiKey == [status |-> 401, detail |-> "Invalid API key"]

\* the constraints of CropPredictionRequest: acres gt 0, latitude ge 29 le 33,
\* longitude ge 73 le 77
ValidRequest(request) ==
    /\ request.acres > 0
    /\ request.latitude >= 29000 /\ request.latitude <= 33000
    /\ request.longitude >= 73000 /\ request.longitude <= 77000

\* the answer the framework gives to a body that fails the constraints
Unprocessable == [status |-> 422, detail |-> "validation error"]

\* a request that is turned away before the body of a handler
Rejected(response, state) ==
    [response |-> response, estimated |-> FALSE, predicted |-> FALSE,
     features |-> <<>>, random_state |-> state]

\* POST /api/v1/predict as the application serves it: the dependency
\* verify_api_key, then the validation of the body, then the handler
PostPredict(token, m, metadata, request, out, now_month, seed, state) ==
    IF ~verify_api_key(token) THEN Rejected(InvalidApiKey, state)
    ELSE IF ~ValidRequest(request) THEN Rejected(Unprocessable, state)
    ELSE predict_crop_yield_api(m, metadata, request, out, now_month, seed, state)

\* the bodies of the requests: valid ones, some at the limits of the
\* ranges, some with the optional year and season, and invalid ones
Requests ==
    [crop : {"wheat", "Rice", "Tomato"}, acres : {500, 60000},
     latitude : {29000, 31550}, longitude : {75000}, year : {None}, season : {None}]
    \cup
    [crop : {"wheat"}, acres : {5000}, latitude : {33000}, longitude : {73000, 77000},
     year : {None, [py |-> "int", v |-> 2023]}, season : {None, [s |-> "kharif"]}]
    \cup
    [crop : {"wheat"}, acres : {0, -1000}, latitude : {31550}, longitude : {75000},
     year : {None}, season : {None}]
    \cup
    [crop : {"wheat"}, acres : {5000}, latitude : {28999, 33001, 45000},
     longitude : {75000}, year : {None}, season : {None}]
    \cup
    [crop : {"wheat"}, acres : {5000}, latitude : {31550},
     longitude : {72999, 77001}, year : {None}, season : {None}]

\* the bearer tokens of the requests
Tokens == {"punjab_crop_api_2024", "PUNJAB_CROP_API_2024", "secret"}

\* what the loaded model does with the 39 values: it raises, or returns p
ApiModelOutputs ==
    { [fail |-> "model", p |-> 0] } \cup
    [fail : {"none"}, p : {-500000, 1200000, 2000050, 6000000}]

\* the outputs to consider for the model in place: the stand-in and the
\* absent model take nothing from the loaded model
OutputsOf(m) ==
    IF m = None \/ IsDummy(m) THEN { [fail |-> "none", p |-> 0] } ELSE ApiModelOutputs

Months == {1, 6}

\* a POST /api/v1/predict request
ApiPredict ==
    /\ started
    /\ call = Idle
    /\ \E token \in Tokens, request \in Requests :
       LET accepted == verify_api_key(token) /\ ValidRequest(request)
       IN  \E now_month \in IF accepted THEN Months ELSE {1},
              out \in IF accepted THEN OutputsOf(model) ELSE { [fail |-> "none", p |-> 0] } :
              LET served == PostPredict(token, model, model_metadata, request, out,
                                        now_month, hash_seed, random_state)
              IN  /\ call' = [op |-> "api_predict", token |-> token, request |-> request,
                              out |-> out, now_month |-> now_month,
                              estimated |-> served.estimated,
                              predicted |-> served.predicted,
                              features |-> served.features,
                              response |-> served.response]
                  /\ random_state' = served.random_state
    /\ UNCHANGED <<artifact, model_package, model, model_metadata, started, hash_seed, API_KEY, api_key_file, gemini_model, chat_session, genai>>

\* GET /api/v1/crops and GET /api/v1/districts: the dependency
\* verify_api_key, then a fixed list
GetSupported ==
    /\ started
    /\ call = Idle
    /\ \E token \in Tokens, op \in {"get_supported_crops", "get_supported_districts"} :
          call' = [op |-> op, token |-> token,
                   response |-> IF verify_api_key(token) THEN [status |-> 200]
                                ELSE InvalidApiKey]
    /\ UNCHANGED <<artifact, model_package, model, model_metadata, started, random_state, hash_seed, API_KEY, api_key_file, gemini_model, chat_session, genai>>

\* GET /: no dependency on verify_api_key
Root ==
    /\ started
    /\ call = Idle
    /\ call' = [op |-> "root",
                response |-> [status |-> 200, model_loaded |-> (model # None)]]
    /\ UNCHANGED <<artifact, model_package, model, model_metadata, started, random_state, hash_seed, API_KEY, api_key_file, gemini_model, chat_session, genai>>

\* the service: startup, then requests in any order
NextApi ==
    \/ Startup
    \/ HealthCheck
    \/ Root
    \/ GetSupported
    \/ ApiPredict
    \/ Return

SpecApi == InitApi /\ [][NextApi]_vars
(***************************************************************************)
(* The estimator and the recommender as a state machine                    *)
(***************************************************************************)
\* crop strings of a request: database crops in several spellings, crops of
\* the season tables only, and crops of no table
CropNames ==
    {"wheat", "Wheat", "WHEAT", "rice", "Rice", "corn", "maize", "cotton", "Cotton",
     "barley", "mustard", "potato", "sugarcane", "soybean", "peas", "tomato"}

\* latitudes from 29 to 33, around the edges 30.5 and 31.5 of central Punjab
Latitudes == {29000, 30450, 30500, 31000, 31500, 31550, 33000}

\* longitudes from 73 to 77, around the edges 75.0 and 76.5 of central Punjab
Longitudes == {73000, 74950, 75000, 76500, 76550, 77000}

\* farm sizes go up to 5 * MaxFarmStep acres in steps of 5
MaxFarmStep == 5

\* farm sizes in acres (thousandths): 0.5, 9.9, 60 and the steps of 5
FarmSizes == {500, 9900, 60000} \cup {5000 * k : k \in 1..MaxFarmStep}

\* season arguments of get_crop_recommendations
SeasonNames == {"rabi", "kharif", "Rabi", "annual", "summer"}

\* year arguments of estimate_parameters
Years == {None, [py |-> "int", v |-> 2024]}

\* what datetime.now().year may be
NowYears == {2025, 2026}

InitAdvice ==
    /\ artifact = [kind |-> "missing"]
    /\ model_package = NoPredictor
    /\ model = None
    /\ model_metadata = EmptyDict
    /\ started = FALSE
    /\ random_state = 0
    /\ hash_seed = 0
    /\ API_KEY = None
    /\ api_key_file = None
    /\ gemini_model = None
    /\ chat_session = None
    /\ genai = NothingConstructed
    /\ call = Idle

\* a call of estimate_parameters
EstimateParameters ==
    /\ call = Idle
    /\ \E crop \in CropNames, latitude \in Latitudes, longitude \in Longitudes,
          year \in Years, now_year \in NowYears :
          call' = [op |-> "estimate_parameters", crop |-> crop, latitude |-> latitude,
                   longitude |-> longitude, year |-> year,
                   result |-> estimate_parameters(crop, "Ludhiana", latitude, longitude,
                                                  year, now_year)]
    /\ UNCHANGED <<artifact, model_package, model, model_metadata, started, random_state, hash_seed, API_KEY, api_key_file, gemini_model, chat_session, genai>>

\* a call of get_crop_recommendations
GetCropRecommendations ==
    /\ call = Idle
    /\ \E current_crop \in CropNames, latitude \in Latitudes, longitude \in Longitudes,
          farm_size \in FarmSizes, season \in SeasonNames :
          call' = [op |-> "get_crop_recommendations", current_crop |-> current_crop,
                   latitude |-> latitude, longitude |-> longitude,
                   farm_size |-> farm_size, season |-> season,
                   result |-> get_crop_recommendations(latitude, longitude, current_crop,
                                                       farm_size, season)]
    /\ UNCHANGED <<artifact, model_package, model, model_metadata, started, random_state, hash_seed, API_KEY, api_key_file, gemini_model, chat_session, genai>>

\* a call of get_general_farming_tips
GetGeneralFarmingTips ==
    /\ call = Idle
    /\ \E season \in SeasonNames, latitude \in Latitudes, farm_size \in FarmSizes :
          call' = [op |-> "get_general_farming_tips", season |-> season,
                   latitude |-> latitude, farm_size |-> farm_size,
                   result |-> get_general_farming_tips(season, latitude, farm_size)]
    /\ UNCHANGED <<artifact, model_package, model, model_metadata, started, random_state, hash_seed, API_KEY, api_key_file, gemini_model, chat_session, genai>>

\* a call of get_seasonal_advice; current_month is datetime.now().month
\* when the caller passes None
GetSeasonalAdvice ==
    /\ call = Idle
    /\ \E season \in SeasonNames, latitude \in Latitudes, current_month \in 1..12 :
          call' = [op |-> "get_seasonal_advice", season |-> season,
                   latitude |-> latitude, current_month |-> current_month,
                   result |-> get_seasonal_advice(season, latitude, current_month)]
    /\ UNCHANGED <<artifact, model_package, model, model_metadata, started, random_state, hash_seed, API_KEY, api_key_file, gemini_model, chat_session, genai>>

NextAdvice ==
    \/ EstimateParameters
    \/ GetCropRecommendations
    \/ GetGeneralFarmingTips
    \/ GetSeasonalAdvice
    \/ Return

SpecAdvice == InitAdvice /\ [][NextAdvice]_vars

C8_CurrentCropExcluded ==
    call.op = "get_crop_recommendations" =>
        \A i \in 1..Len(call.result) :
            Lower(call.result[i].crop_name) # Lower(call.current_crop)

\* C8 witness: the current crop, written with a capital, grows in the
\* requested season, and other crops were recommended
C8_Witness ==
    /\ call.op = "get_crop_recommendations"
    /\ call.current_crop = "Wheat"
    /\ Lower(call.season) = "rabi"
    /\ Len(call.result) = 5

\* the crops of the database that qualify for the last call's arguments
Qualifying ==
    { i \in 1..Len(crop_database) :
        /\ crop_database[i].name # Lower(call.current_crop)
        /\ \/ Lower(call.season) \in crop_database[i].seasons
           \/ crop_database[i].name = "sugarcane" }

\* C9: get_crop_recommendations returns at most 5 entries, ordered by
\* (suitability_score, expected_yield) descending; when more than 5 crops
\* qualify, the 5 returned are the 5 greatest under that order.
C9_TopFiveDescending ==
    call.op = "get_crop_recommendations" =>
        /\ Len(call.result) = Min(5, Cardinality(Qualifying))
        /\ \A i \in 1..(Len(call.result) - 1) :
              \/ call.result[i].suitability_score > call.result[i + 1].suitability_score
              \/ /\ call.result[i].suitability_score = call.result[i + 1].suitability_score
                 /\ call.result[i].expected_yield >= call.result[i + 1].expected_yield
        /\ \A q \in Qualifying :
              \/ \E i \in 1..Len(call.result) :
                    call.result[i].crop_name = Title(crop_database[q].name)
              \/ \A i \in 1..Len(call.result) :
                    call.result[i].expected_yield >=
                        ExpectedYield(crop_database[q].base_yield, call.latitude,
                                      call.farm_size)

\* C9 witness: six crops qualified and five were returned
C9_Witness ==
    /\ call.op = "get_crop_recommendations"
    /\ Cardinality(Qualifying) = 6
    /\ Len(call.result) = 5
    /\ call.result[1].expected_yield > call.result[5].expected_yield

\* C10: every recommendation's suitability_score is
\* min(1.0, 0.7 + (0.2 in central Punjab) + (0.1 from 10 acres on)),
\* so it is one of 0.7, 0.8, 0.9, 1.0.
C10_SuitabilityScore ==
    call.op = "get_crop_recommendations" =>
        \A i \in 1..Len(call.result) :
            /\ call.result[i].suitability_score \in {700, 800, 900, 1000}
            /\ call.result[i].suitability_score =
                  Min(1000,
                      700
                      + (IF /\ 30500 <= call.latitude /\ call.latitude <= 31500
                            /\ 75000 <= call.longitude /\ call.longitude <= 76500
                         THEN 200 ELSE 0)
                      + (IF call.farm_size >= 10000 THEN 100 ELSE 0))

\* C10 witness: a farm of exactly 10 acres on the edge of central Punjab
\* got recommendations with the full score
C10_Witness ==
    /\ call.op = "get_crop_recommendations"
    /\ call.farm_size = 10000
    /\ call.latitude = 31500
    /\ call.longitude = 75000
    /\ Len(call.result) > 0
    /\ call.result[1].suitability_score = 1000

(***************************************************************************)
(* src/prediction.py: the yield categories                                 *)
(***************************************************************************)
\* the yields around every threshold of _categorize_yield
Yields ==
    {-1000, 0, 349999, 350000, 499999, 500000, 3499999, 3500000, 4499999,
     4500000, 4999999, 5000000, 5999999, 6000000, 7000000}

\* input dicts by their crop_type key, absent in the first
CropTypeInputs ==
    {EmptyDict} \cup
    { K("crop_type") :> [s |-> c] :
        c \in {"wheat", "Wheat", "WHEAT", "rice", "RICE", "cotton", "Cotton",
               "Maize", "Unknown"} }

InitCategorize ==
    /\ artifact = [kind |-> "missing"]
    /\ model_package = NoPredictor
    /\ model = None
    /\ model_metadata = EmptyDict
    /\ started = FALSE
    /\ random_state = 0
    /\ hash_seed = 0
    /\ API_KEY = None
    /\ api_key_file = None
    /\ gemini_model = None
    /\ chat_session = None
    /\ genai = NothingConstructed
    /\ call = Idle

\* the category step of predict_yield, taken for two yields of one input:
\* crop_type = input_data.get('crop_type', 'Unknown'), then _categorize_yield
CategorizeYield ==
    /\ call = Idle
    /\ \E input_data \in CropTypeInputs, y1 \in Yields, y2 \in Yields :
          LET crop_type == Get(input_data, K("crop_type"), [s |-> "Unknown"]).s
          IN  call' = [op         |-> "_categorize_yield",
                       input_data |-> input_data,
                       crop_type  |-> crop_type,
                       yields     |-> <<y1, y2>>,
                       categories |-> <<_categorize_yield(y1, crop_type),
                                        _categorize_yield(y2, crop_type)>>]
    /\ UNCHANGED <<artifact, model_package, model, model_metadata, started, random_state, hash_seed, API_KEY, api_key_file, gemini_model, chat_session, genai>>

NextCategorize ==
    \/ CategorizeYield
    \/ Return

SpecCategorize == InitCategorize /\ [][NextCategorize]_vars

\* the order Low < Medium < High of the categories
CategoryRank(category) ==
    CASE category = "Low" -> 1
      [] category = "Medium" -> 2
      [] category = "High" -> 3
      [] OTHER -> 0

\* C11: the categorisation is monotonic: for one crop type and two yields
\* y1 <= y2, the category of y2 is not lower than the category of y1 in the
\* order Low < Medium < High.
C11_CategoryMonotonic ==
    (call.op = "_categorize_yield" /\ call.yields[1] <= call.yields[2]) =>
        CategoryRank(call.categories[1]) <= CategoryRank(call.categories[2])

\* C11 witness: two yields of wheat, the lower one Low and the higher one High
C11_Witness ==
    /\ call.op = "_categorize_yield"
    /\ call.crop_type = "Wheat"
    /\ call.yields[1] < call.yields[2]
    /\ call.categories = <<"Low", "High">>

\* the thresholds (High, Medium) the categorisation is to use for a crop
\* type, whatever its case; <<>> for a crop type without thresholds
Thresholds(crop_type) ==
    IF crop_type \in {"wheat", "Wheat", "WHEAT"} THEN <<4500000, 3500000>>
    ELSE IF crop_type \in {"rice", "Rice", "RICE"} THEN <<6000000, 5000000>>
    ELSE IF crop_type \in {"cotton", "Cotton", "COTTON"} THEN <<500000, 350000>>
    ELSE <<>>

\* C12: the crop type is compared case-insensitively; wheat is High from
\* 4500, Medium from 3500, else Low; rice High from 6000, Medium from 5000,
\* else Low; cotton High from 500, Medium from 350, else Low; every other
\* crop type, and an input without a crop_type key, is 'Unknown' whatever
\* the yield.
C12_CategoryThresholds ==
    call.op = "_categorize_yield" =>
        \A i \in 1..2 :
            LET t == Thresholds(IF K("crop_type") \in DOMAIN call.input_data
                                THEN call.input_data[K("crop_type")].s
                                ELSE "no crop type")
                y == call.yields[i]
            IN  call.categories[i] =
                    IF t = <<>> THEN "Unknown"
                    ELSE IF y >= t[1] THEN "High"
                    ELSE IF y >= t[2] THEN "Medium" ELSE "Low"

\* C12 witness: an upper-case crop type categorised on both sides of its
\* Medium threshold
C12_Witness ==
    /\ call.op = "_categorize_yield"
    /\ call.input_data = (K("crop_type") :> [s |-> "RICE"])
    /\ call.yields = <<4999999, 5000000>>
    /\ call.categories = <<"Low", "Medium">>

(***************************************************************************)
(* fastapi_backend.py: the second service                                  *)
(***************************************************************************)
\* fastapi_backend.create_dummy_model(): the globals it leaves
backend_create_dummy_model ==
    [model |-> [name |-> "DummyModel", has_estimators |-> FALSE, dummy |-> TRUE],
     model_metadata |-> [model_type |-> "DummyModel",
                         features |-> <<K("longitude"), K("latitude"),
                                        <<"crop", "_encoded">>, K("farm_size_acres")>>,
                         loaded_at |-> "now", file_path |-> "dummy_model",
                         note |-> "fallback dummy model"]]

\* fastapi_backend.load_model(): the globals (model, model_metadata) it leaves
backend_load_model(file) ==
    IF file.kind \in {"missing", "unreadable", "corrupt", "not_a_dict"}
    THEN backend_create_dummy_model
    ELSE [model |-> GetModel(file),
          model_metadata |-> [model_type |-> TypeName(GetModel(file)),
                              features |-> IF file.kind = "empty_dict" THEN <<>>
                                           ELSE file.feature_names,
                              loaded_at |-> "now", file_path |-> "model_path"]]

\* DummyModel.predict of fastapi_backend on the row [longitude, latitude,
\* crop hash, farm size], `r` being the value random.random() returns
BackendDummyPredict(row, r) ==
    LET lat_factor == 1000 + (row[2] - 30000) \div 100
        lon_factor == 1000 + (row[1] - 75000) \div 200
        base_yield == 1500
        predicted_yield == MulDiv(MulDiv(base_yield * lat_factor, lon_factor, 1000),
                                  900 + (r * 200) \div 1000, 1000)
    IN  Max(500000, Min(3000000, predicted_yield))

\* the constraints of PredictionInput: longitude ge -180 le 180, latitude
\* ge -90 le 90, farm_size_acres gt 0, pH ge 4 le 9
BackendValidRequest(input_data) ==
    /\ input_data.longitude >= -180000 /\ input_data.longitude <= 180000
    /\ input_data.latitude >= -90000 /\ input_data.latitude <= 90000
    /\ input_data.farm_size_acres > 0
    /\ input_data.pH >= 4000 /\ input_data.pH <= 9000

\* a PredictionInput with the defaults of its optional fields
PredictionInput(longitude, latitude, crop, farm_size_acres) ==
    [longitude |-> longitude, latitude |-> latitude, crop |-> crop,
     farm_size_acres |-> farm_size_acres,
     district |-> "Amritsar", sowing_month |-> 11, season |-> "rabi",
     temperature |-> 25000, humidity |-> 60000, rainfall |-> 600000,
     wind_speed |-> 10000, pH |-> 7000, organic_carbon |-> 500,
     N_available |-> 250000, P_available |-> 25000, K_available |-> 300000,
     ndvi_mean |-> 700, ndwi_mean |-> 300, blue |-> 80, green |-> 120, red |-> 150,
     nir |-> 350, year |-> 2024]

\* the dict the handler hands to models.prediction_function.predict_crop_yield
prediction_input(input_data) ==
    (K("year") :> input_data.year) @@ (K("latitude") :> input_data.latitude)
    @@ (K("longitude") :> input_data.longitude) @@ (K("ndvi_mean") :> input_data.ndvi_mean)
    @@ (K("ndwi_mean") :> input_data.ndwi_mean) @@ (K("blue") :> input_data.blue)
    @@ (K("green") :> input_data.green) @@ (K("red") :> input_data.red)
    @@ (K("nir") :> input_data.nir) @@ (K("pH") :> input_data.pH)
    @@ (K("organic_carbon") :> input_data.organic_carbon)
    @@ (K("N_available") :> input_data.N_available)
    @@ (K("P_available") :> input_data.P_available)
    @@ (K("K_available") :> input_data.K_available)
    @@ (K("temperature") :> input_data.temperature)
    @@ (K("humidity") :> input_data.humidity) @@ (K("rainfall") :> input_data.rainfall)
    @@ (K("wind_speed") :> input_data.wind_speed)
    @@ (K("sowing_month") :> input_data.sowing_month)
    @@ (K("crop_type") :> [s |-> input_data.crop])
    @@ (K("district") :> [s |-> input_data.district])
    @@ (K("season") :> [s |-> input_data.season])
    @@ (K("data_source") :> [s |-> "api"])
    @@ (K("soil_health_status") :> [s |-> "good"])
    @@ (K("data_source_soil") :> [s |-> "api"])
    @@ (K("data_source_weather") :> [s |-> "api"])
    @@ (K("soil_pH_category") :>
          [s |-> IF 6500 <= input_data.pH /\ input_data.pH <= 7500 THEN "neutral"
                 ELSE IF input_data.pH < 6500 THEN "acidic" ELSE "alkaline"])

\* the body of POST /predict: `m` is the global model, `file` the artifact
\* the comprehensive function unpickles again, `out` what that function's
\* model does, `fallback_out` what the in-memory model does with the four
\* values of the fallback.  As in the other service, the 503 raised for
\* model is None ends in the except clause and leaves as 500.
backend_predict(m, file, input_data, out, fallback_out, seed, state) ==
    IF m = None
    THEN [response |-> PredictionFailed, estimated |-> FALSE, predicted |-> FALSE,
          random_state |-> state]
    ELSE LET result == predict_crop_yield_models(file, prediction_input(input_data), out)
             reached_model == /\ result.assembled
                              /\ ~(file.use_scaling /\ file.scaler # None
                                   /\ out.fail = "scaler")
             input_array == << input_data.longitude, input_data.latitude,
                               StrHash(seed, [s |-> Lower(input_data.crop)]) % 100,
                               input_data.farm_size_acres >>
             echoed == [longitude |-> input_data.longitude,
                        latitude |-> input_data.latitude, crop |-> input_data.crop,
                        farm_size_acres |-> input_data.farm_size_acres,
                        district |-> input_data.district, season |-> input_data.season]
         IN  IF result.outcome = "returned"
             THEN [estimated |-> FALSE, predicted |-> TRUE, random_state |-> state,
                   response |->
                      [status |-> 200,
                       prediction |-> [value |-> result.result.predicted_yield,
                                       lower_bound |-> result.result.lower_bound,
                                       upper_bound |-> result.result.upper_bound,
                                       fallback |-> FALSE],
                       input |-> echoed,
                       model_info |-> [model_type |-> result.result.model_used,
                                       prediction_value |->
                                           Round(result.result.predicted_yield, 100),
                                       units |-> "kg/acre"]]]
             ELSE IF ~IsDummy(m) /\ fallback_out.fail = "model"
             THEN [response |-> PredictionFailed, estimated |-> FALSE,
                   predicted |-> TRUE, random_state |-> state]
             ELSE LET predicted_value ==
                          IF IsDummy(m)
                          THEN BackendDummyPredict(input_array, RandomDraw(state))
                          ELSE fallback_out.p
                  IN  [estimated |-> FALSE, predicted |-> TRUE,
                       random_state |-> IF IsDummy(m) THEN NextRandom(state) ELSE state,
                       response |->
                          [status |-> 200,
                           prediction |-> [value |-> predicted_value, fallback |-> TRUE],
                           input |-> echoed,
                           model_info |-> [model_type |-> "fallback",
                                           prediction_value |-> Round(predicted_value, 100),
                                           units |-> "kg/acre"]]]

\* POST /predict as the application serves it: the dependency
\* verify_api_key of fastapi_backend (credentials != API_KEY), then the
\* validation of the body, then the handler
BackendPostPredict(token, key, m, file, input_data, out, fallback_out, seed, state) ==
    IF token # key
    THEN [response |-> InvalidApiKey, estimated |-> FALSE, predicted |-> FALSE,
          random_state |-> state]
    ELSE IF ~BackendValidRequest(input_data)
    THEN [response |-> Unprocessable, estimated |-> FALSE, predicted |-> FALSE,
          random_state |-> state]
    ELSE backend_predict(m, file, input_data, out, fallback_out, seed, state)

\* the keys secrets.token_urlsafe(32) can give, or the key file can hold
ApiKeys == {[s |-> "key-1"], [s |-> "key-2"]}

\* the artifacts of the second service
BackendArtifacts ==
    { a \in Artifacts :
        a.kind \in {"package", "no_model_key"} =>
            /\ a.kind = "package" => a.scaler # None
            /\ Len(a.feature_names) = 4
            /\ K("district") \in DOMAIN a.label_encoders }

\* no process of fastapi_backend runs yet and no key file exists
InitBackend ==
    /\ artifact \in BackendArtifacts
    /\ model_package = NoPredictor
    /\ model = None
    /\ model_metadata = EmptyDict
    /\ started = FALSE
    /\ random_state \in RandomStates
    /\ hash_seed \in HashSeeds
    /\ API_KEY = None
    /\ api_key_file = None
    /\ gemini_model = None
    /\ chat_session = None
    /\ genai = NothingConstructed
    /\ call = Idle

\* the module-level statements that set API_KEY: the key an existing file
\* holds, else `generated`, which is written to the file
ReadOrGenerateKey(file, generated) ==
    IF file # None
    THEN [API_KEY |-> file, api_key_file |-> file]
    ELSE [API_KEY |-> generated, api_key_file |-> generated]

\* a process starts and imports fastapi_backend; secrets.token_urlsafe(32)
\* may give any key
BackendLaunch ==
    /\ API_KEY = None
    /\ call = Idle
    /\ \E generated \in ApiKeys :
          /\ API_KEY' = ReadOrGenerateKey(api_key_file, generated).API_KEY
          /\ api_key_file' = ReadOrGenerateKey(api_key_file, generated).api_key_file
    /\ UNCHANGED <<artifact, model_package, model, model_metadata, started, random_state, hash_seed, gemini_model, chat_session, genai, call>>

\* the process ends and its globals are gone; the next process draws its
\* own hash salt and generator state
ProcessGone ==
    /\ API_KEY' = None
    /\ model' = None
    /\ model_metadata' = EmptyDict
    /\ started' = FALSE
    /\ random_state' \in RandomStates
    /\ hash_seed' \in HashSeeds
    /\ UNCHANGED <<artifact, model_package, gemini_model, chat_session, genai, call>>

\* the server is stopped and the finally clause of the main block runs:
\* os.remove('.api_key') when the file exists
BackendStop ==
    /\ API_KEY # None
    /\ call = Idle
    /\ api_key_file' = None
    /\ ProcessGone

\* the process ends without running the finally clause of the main block:
\* it is killed, or the application was served without the main block
BackendKill ==
    /\ API_KEY # None
    /\ call = Idle
    /\ api_key_file' = api_key_file
    /\ ProcessGone

\* lifespan(): load_model() runs before any request is served
BackendStartup ==
    /\ API_KEY # None
    /\ ~started
    /\ call = Idle
    /\ started' = TRUE
    /\ model' = backend_load_model(artifact).model
    /\ model_metadata' = backend_load_model(artifact).model_metadata
    /\ UNCHANGED <<artifact, model_package, random_state, hash_seed, API_KEY, api_key_file, gemini_model, chat_session, genai, call>>

\* GET /health of fastapi_backend
BackendHealthCheck ==
    /\ started
    /\ call = Idle
    /\ call' = [op |-> "backend_health_check",
                response |-> health_check(model, model_metadata)]
    /\ UNCHANGED <<artifact, model_package, model, model_metadata, started, random_state, hash_seed, API_KEY, api_key_file, gemini_model, chat_session, genai>>

\* the bodies of the requests to POST /predict
BackendRequests ==
    { PredictionInput(lon, lat, crop, 5000) :
        lon \in {75000}, lat \in {31500, 45000, 90001}, crop \in {"Wheat", "rice"} }
    \cup { PredictionInput(75000, 31500, "Wheat", acres) : acres \in {0, -1000} }
    \cup { PredictionInput(lon, 31500, "Wheat", 5000) : lon \in {10000, -180001} }
    \cup { [PredictionInput(75000, 31500, "Wheat", 5000) EXCEPT !.pH = 3900] }

\* what the model of the comprehensive function does
BackendOutputs ==
    { o \in ModelOutputs :
        \/ o.fail \in {"scaler", "model"}
        \/ o.fail = "none" /\ o.p \in {-500000, 4500000} /\ Len(o.subs) = 2 }

\* what the in-memory model does with the four values of the fallback
FallbackOutputs == { [fail |-> "model", p |-> 0], [fail |-> "none", p |-> 1500000] }

\* a POST /predict request
BackendPredict ==
    /\ started
    /\ call = Idle
    /\ \E token \in ApiKeys, input_data \in BackendRequests :
       LET accepted == token = API_KEY /\ BackendValidRequest(input_data)
           real     == accepted /\ model # None /\ ~IsDummy(model)
       IN  \E out \in IF real THEN BackendOutputs
                      ELSE { o \in BackendOutputs : o.fail = "none" /\ o.p = 4500000 },
              fallback_out \in IF real THEN FallbackOutputs
                               ELSE { [fail |-> "none", p |-> 1500000] } :
              LET served == BackendPostPredict(token, API_KEY, model, artifact, input_data,
                                               out, fallback_out, hash_seed, random_state)
              IN  /\ call' = [op |-> "backend_predict", token |-> token,
                              request |-> input_data, out |-> out,
                              fallback_out |-> fallback_out,
                              estimated |-> served.estimated,
                              predicted |-> served.predicted,
                              response |-> served.response]
                  /\ random_state' = served.random_state
    /\ UNCHANGED <<artifact, model_package, model, model_metadata, started, hash_seed, API_KEY, api_key_file, gemini_model, chat_session, genai>>

NextBackend ==
    \/ BackendLaunch
    \/ BackendStop
    \/ BackendKill
    \/ BackendStartup
    \/ BackendHealthCheck
    \/ BackendPredict
    \/ Return

SpecBackend == InitBackend /\ [][NextBackend]_vars

(***************************************************************************)
(* Properties of POST /api/v1/predict                                      *)
(***************************************************************************)
\* the last call is a prediction request answered 200
Answered200 == call.op = "api_predict" /\ call.response.status = 200

\* the season and the year a request asks for: its own when supplied, else
\* the season of the crop and the default year of the handler
RequestedSeason(request) ==
    IF request.season # None THEN request.season.s ELSE DetectSeason(request.crop).season

RequestedYear(request) == IF request.year # None THEN request.year.v ELSE 2025

\* C14: when a prediction request supplies the optional season or year, the
\* supplied value is the one used to estimate the parameters, to build the
\* feature vector and to generate the recommendations, the tips and the
\* advice; the crop's season and the default year are used only for a field
\* that is omitted.
C14_SuppliedSeasonAndYearOverride ==
    Answered200 =>
        LET request == call.request
            season  == RequestedSeason(request)
        IN  /\ call.response.estimated_parameters.season = season
            /\ call.features[35] = RequestedYear(request)
            /\ call.response.crop_recommendations =
                   get_crop_recommendations(request.latitude, request.longitude,
                                            request.crop, request.acres, season)
            /\ call.response.farming_tips =
                   get_general_farming_tips(season, request.latitude, request.acres)
            /\ call.response.seasonal_advice =
                   get_seasonal_advice(season, request.latitude, call.now_month)

\* whether the body of a prediction request lies outside the inbound
\* contract: latitude outside [29, 33], longitude outside [73, 77], or an
\* acreage that is not positive
OutsideContract(request) ==
    \/ request.latitude < 29000 \/ request.latitude > 33000
    \/ request.longitude < 73000 \/ request.longitude > 77000
    \/ (IF "acres" \in DOMAIN request THEN request.acres
        ELSE request.farm_size_acres) <= 0

\* C15: in every API variant, a prediction request with latitude outside
\* [29, 33], longitude outside [73, 77] or acreage <= 0 is rejected at the
\* request boundary: neither parameter estimation nor model.predict is
\* executed for it, and it is not answered 200.
C15_OutOfRangeRejectedAtBoundary ==
    (call.op \in {"api_predict", "backend_predict"} /\ OutsideContract(call.request)) =>
        /\ ~call.estimated
        /\ ~call.predicted
        /\ call.response.status # 200

\* C16: handling a prediction request writes no process-wide state: the
\* globals model and model_metadata and every other state shared between
\* requests (the generator of the random module, the hash salt, the API
\* key) are the same after the request as before it, so that the answer to
\* a request does not depend on the requests served around it.
C16_RequestsWriteNoSharedState ==
    [][ call'.op \in {"api_predict", "backend_predict"} =>
            /\ model' = model
            /\ model_metadata' = model_metadata
            /\ random_state' = random_state
            /\ hash_seed' = hash_seed
            /\ API_KEY' = API_KEY ]_vars

\* the endpoints of crop_prediction_api that depend on verify_api_key
GuardedOps == {"api_predict", "get_supported_crops", "get_supported_districts"}

\* C17: a prediction is computed only for a request whose bearer token is
\* the configured API key: POST /api/v1/predict, GET /api/v1/crops and
\* GET /api/v1/districts answer any other token with 401 'Invalid API key'
\* without entering the handler, a request with the valid key and valid
\* fields is answered 200, and GET /health and GET / are answered without
\* a token.
C17_OnlyTheApiKeyIsServed ==
    /\ (call.op \in GuardedOps /\ call.token # SINGLE_API_KEY) =>
          /\ call.response = InvalidApiKey
          /\ call.op = "api_predict" => (~call.estimated /\ ~call.predicted)
    /\ (call.op \in GuardedOps /\ call.token = SINGLE_API_KEY
          /\ (call.op = "api_predict" => ValidRequest(call.request))) =>
          call.response.status = 200
    /\ call.op = "health_check" =>
          ("token" \notin DOMAIN call /\ call.response.status = "healthy")
    /\ call.op = "root" =>
          ("token" \notin DOMAIN call /\ call.response.status = 200)

(***************************************************************************)
(* Properties of the advice for a crop outside the lookup tables           *)
(***************************************************************************)
\* the names of crop_database
DatabaseCrops == { crop_database[i].name : i \in 1..Len(crop_database) }

\* whether a crop name is in none of the tables: rabi_crops, kharif_crops,
\* crop_database (tips_database has the keys of crop_database)
Unseen(crop) == Lower(crop) \notin (rabi_crops \cup kharif_crops \cup DatabaseCrops)

\* the seasonal messages get_seasonal_advice chooses from
SeasonalMessages ==
    {"RABI SEASON", "WINTER CARE", "HARVEST TIME", "FIELD PREPARATION",
     "KHARIF PREPARATION", "MONSOON SEASON", "KHARIF HARVEST", "SUMMER SEASON"}

\* C18: for a crop name found in no lookup table, with any valid place and
\* acreage, get_crop_recommendations returns a list of at least one (and at
\* most five) recommendations, each for a crop of the database with its
\* tips; get_general_farming_tips returns its six tips and
\* get_seasonal_advice returns a text, the one of the season when the
\* season is rabi or kharif: none of the three ends in an error.
C18_UnseenCropStillAdvised ==
    /\ (call.op = "get_crop_recommendations" /\ Unseen(call.current_crop)) =>
          /\ Len(call.result) >= 1 /\ Len(call.result) <= 5
          /\ \A i \in 1..Len(call.result) :
                /\ Lower(call.result[i].crop_name) \in DatabaseCrops
                /\ Len(call.result[i].tips) = 3
    /\ call.op = "get_general_farming_tips" => Len(call.result) = 6
    /\ call.op = "get_seasonal_advice" =>
          /\ Len(call.result) <= 2
          /\ Lower(call.season) \in {"rabi", "kharif"} =>
                (Len(call.result) >= 1 /\ call.result[1] \in SeasonalMessages)

\* C18 witness: recommendations were asked for 'tomato' in a season no crop
\* of the database names, and the annual crop was recommended
C18_Witness ==
    /\ call.op = "get_crop_recommendations"
    /\ call.current_crop = "tomato"
    /\ call.season = "summer"
    /\ Len(call.result) = 1
    /\ call.result[1].crop_name = "Sugarcane"

(***************************************************************************)
(* Properties of the stand-in model and of the feature array               *)
(***************************************************************************)
\* the last call is a POST /api/v1/predict that passed the key check and
\* the validation and was served by the stand-in model
ServedByDummy ==
    /\ call.op = "api_predict"
    /\ verify_api_key(call.token)
    /\ ValidRequest(call.request)
    /\ IsDummy(model)

\* C19: every valid authenticated request served by the stand-in model is
\* answered with success and a predicted_yield above 0; the prediction lies
\* in [800, 3500] for every row and every random variation, and the array
\* handed to the model has exactly 39 values.
C19_DummyModelAnswers ==
    ServedByDummy =>
        /\ call.response.status = 200
        /\ call.response.success
        /\ call.response.predicted_yield > 0
        /\ call.response.predicted_yield >= 800000
        /\ call.response.predicted_yield <= 3500000
        /\ Len(call.features) = 39

\* C19 witness: the stand-in model served a small farm at the southern edge
\* and the lower clamp of 800 made the prediction
C19_Witness ==
    /\ ServedByDummy
    /\ call.request.acres = 500
    /\ call.request.latitude = 29000
    /\ call.response.predicted_yield = 800000
    /\ Len(call.features) = 39

\* what estimate_parameters returned to the handler of the last call
EstimatedForCall ==
    estimate_parameters(call.request.crop, "Ludhiana", call.request.latitude,
                        call.request.longitude, [py |-> "int", v |-> 2025], 2025)

\* C20: in the array built by POST /api/v1/predict exactly one of
\* season_Kharif, season_Rabi, season_Summer (values 20 to 22) is 1, the one
\* naming the season estimate_parameters returned, and exactly one of
\* month_1..month_12 (values 23 to 34) is 1, the one of the estimated
\* sowing_month.
C20_SeasonAndMonthOneHot ==
    (call.op = "api_predict" /\ call.estimated) =>
        /\ call.features[20] = (IF EstimatedForCall.season = "kharif" THEN 1 ELSE 0)
        /\ call.features[21] = (IF EstimatedForCall.season = "rabi" THEN 1 ELSE 0)
        /\ call.features[22] = (IF EstimatedForCall.season = "summer" THEN 1 ELSE 0)
        /\ call.features[20] + call.features[21] + call.features[22] = 1
        /\ \A m \in 1..12 :
              call.features[22 + m] = (IF EstimatedForCall.sowing_month = m THEN 1 ELSE 0)

(***************************************************************************)
(* Properties of the requests that find no model                           *)
(***************************************************************************)
\* the last call is a predict request of either service that passed the key
\* check and the validation
PredictRequestAccepted ==
    \/ /\ call.op = "api_predict"
       /\ verify_api_key(call.token)
       /\ ValidRequest(call.request)
    \/ /\ call.op = "backend_predict"
       /\ call.token = API_KEY
       /\ BackendValidRequest(call.request)

\* C21: a predict request that arrives while the global model is None is
\* answered with status 503 (Service Unavailable) and with no other status,
\* in crop_prediction_api and in fastapi_backend.
C21_NoModelAnswers503 ==
    (PredictRequestAccepted /\ model = None) =>
        call.response.status = 503

(***************************************************************************)
(* Properties of the API key of fastapi_backend                            *)
(***************************************************************************)
\* C22: the API key of fastapi_backend changes with every restart: whenever
\* a run starts, its key is generated for that run and no key file left by
\* an earlier run is read; while the run lasts the key does not change.
C22_KeyFreshEveryRun ==
    [][ /\ (API_KEY = None /\ API_KEY' # None) => api_key_file = None
        /\ (API_KEY # None /\ API_KEY' # None) => API_KEY' = API_KEY ]_vars

(***************************************************************************)
(* Properties of the fallback of fastapi_backend POST /predict             *)
(***************************************************************************)
\* the last call is a POST /predict that passed the key check and the
\* validation
BackendAccepted ==
    /\ call.op = "backend_predict"
    /\ call.token = API_KEY
    /\ BackendValidRequest(call.request)

\* whether the comprehensive prediction function raised in the last call
ComprehensiveRaised ==
    predict_crop_yield_models(artifact, prediction_input(call.request),
                              call.out).outcome # "returned"

\* whether model.predict of the in-memory model raises on the four values
FallbackRaised == ~IsDummy(model) /\ call.fallback_out.fail = "model"

\* the four values of the fallback: longitude, latitude, crop hash, farm size
FallbackRow ==
    << call.request.longitude, call.request.latitude,
       StrHash(hash_seed, [s |-> Lower(call.request.crop)]) % 100,
       call.request.farm_size_acres >>

\* C23: when the comprehensive prediction function raises, POST /predict
\* still answers 200 with the prediction of the in-memory model on the four
\* values and model_type 'fallback', unless the fallback prediction raises
\* too; 'fallback' is reported in that case only, and a request that passed
\* the key check and the validation fails with 500 only when the fallback
\* prediction itself raised.
C23_FallbackPrediction ==
    BackendAccepted =>
        /\ (ComprehensiveRaised /\ ~FallbackRaised) =>
              /\ call.response.status = 200
              /\ call.response.model_info.model_type = "fallback"
              /\ call.response.prediction.fallback
              /\ IsDummy(model) =>
                    \E state \in RandomStates :
                        call.response.prediction.value
                            = BackendDummyPredict(FallbackRow, RandomDraw(state))
              /\ ~IsDummy(model) =>
                    call.response.prediction.value = call.fallback_out.p
        /\ (call.response.status = 200
              /\ call.response.model_info.model_type = "fallback") => ComprehensiveRaised
        /\ call.response.status = 500 => (ComprehensiveRaised /\ FallbackRaised)

\* the same statement for the requests that found a model
FallbackPredictionWithModel == model # None => C23_FallbackPrediction

(***************************************************************************)
(* Properties of the predictor without an artifact                         *)
(***************************************************************************)
\* the artifact cannot be read: open() or pickle.load raises in load_model
ArtifactMissing == artifact.kind \in {"missing", "unreadable", "corrupt"}

\* C24: when the model artifact is missing or unreadable, constructing
\* CropYieldPredictor does not raise and a stand-in model is in place, so
\* that every later predict_yield returns a prediction, not an error.
C24_MissingArtifactNotFatal ==
    (ArtifactMissing /\ model_package # NoPredictor) =>
        /\ Truthy(model_package)
        /\ call.op = "predict_yield" =>
              /\ call.outcome = "returned"
              /\ "error" \notin DOMAIN call.result
              /\ "predicted_yield" \in DOMAIN call.result

(***************************************************************************)
(* src/pipeline.py: run_complete_pipeline                                  *)
(***************************************************************************)
\* what a step of the pipeline can do: return a truthy value (a summary, a
\* (DataFrame, metadata) pair, a model package, True), return a falsy value
\* (None, False), or raise
StepOutcomes == {"truthy", "falsy", "raised"}

\* the packages save_model may write for the best model of a training run
TrainedPackages ==
    { p \in Packages :
        /\ p.feature_names = <<K("temperature"), <<"crop_type", "_encoded">>,
                               <<"district", "_encoded">>, K("heat_stress")>>
        /\ K("district") \in DOMAIN p.label_encoders
        /\ p.scaler # None
        /\ p.use_scaling = ~p.model.has_estimators }

\* a pipeline object has been constructed (self.predictor = None); the
\* artifact of an earlier training run may exist
InitPipeline ==
    /\ artifact \in {[kind |-> "missing"]} \cup TrainedPackages
    /\ model_package = NoPredictor
    /\ model = None
    /\ model_metadata = EmptyDict
    /\ started = FALSE
    /\ random_state = 0
    /\ hash_seed = 0
    /\ API_KEY = None
    /\ api_key_file = None
    /\ gemini_model = None
    /\ chat_session = None
    /\ genai = NothingConstructed
    /\ call = Idle

\* run_complete_pipeline(num_plots, skip_data_collection,
\* skip_feature_engineering) is entered: `at` is the statement it is at,
\* `steps` the steps executed so far with what each did
RunCompletePipeline ==
    /\ call = Idle
    /\ \E skip_data_collection \in BOOLEAN, skip_feature_engineering \in BOOLEAN :
          call' = [op |-> "run_complete_pipeline", at |-> "data_collection",
                   skip_data_collection |-> skip_data_collection,
                   skip_feature_engineering |-> skip_feature_engineering,
                   steps |-> <<>>, returned |-> None]
    /\ UNCHANGED <<artifact, model_package, model, model_metadata, started, random_state, hash_seed, API_KEY, api_key_file, gemini_model, chat_session, genai>>

\* where the function is after a step of the first three: the return False
\* of the falsy test, the except clause for an exception, else the next step
AfterStep(outcome, next) ==
    IF outcome = "truthy" THEN [at |-> next, returned |-> None]
    ELSE [at |-> "returned", returned |-> FALSE]

\* the model-testing step with a False test result ending the pipeline in
\* return False
AfterTestingStrict(outcome) ==
    [at |-> "returned", returned |-> (outcome = "truthy")]

\* where the function is after the model-testing step: both values of
\* test_result lead to return True, an exception to the except clause
AfterTesting(outcome) ==
    [at |-> "returned", returned |-> (outcome # "raised")]

\* the call once the step `name` has been executed with `outcome`
Executed(c, name, outcome, after) ==
    [c EXCEPT !.at = after.at, !.returned = after.returned,
              !.steps = Append(@, [step |-> name, outcome |-> outcome])]

\* Step 1: data_collector.run_complete_collection, unless skipped
DataCollection ==
    /\ call.op = "run_complete_pipeline"
    /\ call.at = "data_collection"
    /\ IF call.skip_data_collection
       THEN call' = [call EXCEPT !.at = "feature_engineering"]
       ELSE \E outcome \in StepOutcomes :
               call' = Executed(call, "data_collection", outcome,
                                AfterStep(outcome, "feature_engineering"))
    /\ UNCHANGED <<artifact, model_package, model, model_metadata, started, random_state, hash_seed, API_KEY, api_key_file, gemini_model, chat_session, genai>>

\* Step 2: feature_engineer.run_feature_engineering, unless skipped
FeatureEngineering ==
    /\ call.op = "run_complete_pipeline"
    /\ call.at = "feature_engineering"
    /\ IF call.skip_feature_engineering
       THEN call' = [call EXCEPT !.at = "model_training"]
       ELSE \E outcome \in StepOutcomes :
               call' = Executed(call, "feature_engineering", outcome,
                                AfterStep(outcome, "model_training"))
    /\ UNCHANGED <<artifact, model_package, model, model_metadata, started, random_state, hash_seed, API_KEY, api_key_file, gemini_model, chat_session, genai>>

\* Step 3: model_trainer.run_training_pipeline; a returned package has been
\* pickled to the artifact by save_model, and a run that raises may have
\* written the file before it raised
ModelTraining ==
    /\ call.op = "run_complete_pipeline"
    /\ call.at = "model_training"
    /\ \E outcome \in StepOutcomes :
          /\ call' = Executed(call, "model_training", outcome,
                              AfterStep(outcome, "model_testing"))
          /\ artifact' \in CASE outcome = "truthy" -> TrainedPackages
                             [] outcome = "falsy"  -> {artifact}
                             [] outcome = "raised" -> {artifact} \cup TrainedPackages
    /\ UNCHANGED <<model_package, model, model_metadata, started, random_state, hash_seed, API_KEY, api_key_file, gemini_model, chat_session, genai>>

\* Step 4: test_trained_model; it constructs a CropYieldPredictor and
\* returns False at once when no package could be loaded
ModelTesting ==
    /\ call.op = "run_complete_pipeline"
    /\ call.at = "model_testing"
    /\ model_package' = load_model(artifact)
    /\ \E outcome \in IF Truthy(load_model(artifact)) THEN StepOutcomes ELSE {"falsy"} :
          call' = Executed(call, "model_testing", outcome, AfterTesting(outcome))
    /\ UNCHANGED <<artifact, model, model_metadata, started, random_state, hash_seed, API_KEY, api_key_file, gemini_model, chat_session, genai>>

\* the caller has taken the value run_complete_pipeline returned
PipelineReturn ==
    /\ call.op = "run_complete_pipeline"
    /\ call.at = "returned"
    /\ call' = Idle
    /\ UNCHANGED <<artifact, model_package, model, model_metadata, started, random_state, hash_seed, API_KEY, api_key_file, gemini_model, chat_session, genai>>

NextPipeline ==
    \/ RunCompletePipeline
    \/ DataCollection
    \/ FeatureEngineering
    \/ ModelTraining
    \/ ModelTesting
    \/ PipelineReturn

SpecPipeline == InitPipeline /\ [][NextPipeline]_vars

(***************************************************************************)
(* Properties of run_complete_pipeline                                     *)
(***************************************************************************)
\* the steps in the order of the function's text
PipelineSteps ==
    <<"data_collection", "feature_engineering", "model_training", "model_testing">>

\* the position of a step in that order
StepIndex(name) == CHOOSE i \in 1..Len(PipelineSteps) : PipelineSteps[i] = name

\* whether the call's flags skip a step
SkipFlag(c, name) ==
    \/ name = "data_collection" /\ c.skip_data_collection
    \/ name = "feature_engineering" /\ c.skip_feature_engineering

\* whether an executed step ends the pipeline: a falsy result of the first
\* three, or an exception
StepFailed(entry) ==
    \/ entry.outcome = "raised"
    \/ entry.outcome = "falsy" /\ entry.step # "model_testing"

\* C25: run_complete_pipeline executes data collection, feature
\* engineering, model training, model testing in this order, leaving out
\* exactly the steps whose skip flag is set; after a step that raised, or
\* one of the first three that returned a falsy value, no step is executed
\* and False is returned; it returns True exactly when training returned a
\* model package and no step raised, whatever model testing reported.
C25_PipelineOrder ==
    call.op = "run_complete_pipeline" =>
        LET steps == call.steps
            done  == { steps[i].step : i \in 1..Len(steps) }
        IN  /\ \A i, j \in 1..Len(steps) :
                  i < j => StepIndex(steps[i].step) < StepIndex(steps[j].step)
            /\ \A i \in 1..Len(steps) :
                  /\ ~SkipFlag(call, steps[i].step)
                  /\ \A n \in 1..(StepIndex(steps[i].step) - 1) :
                        PipelineSteps[n] \in done \/ SkipFlag(call, PipelineSteps[n])
                  /\ StepFailed(steps[i]) =>
                        (i = Len(steps) /\ call.at = "returned" /\ call.returned = FALSE)
            /\ call.at = "returned" =>
                  /\ call.returned \in BOOLEAN
                  /\ call.returned <=>
                        /\ \E i \in 1..Len(steps) :
                              steps[i] = [step |-> "model_training", outcome |-> "truthy"]
                        /\ \A i \in 1..Len(steps) : steps[i].outcome # "raised"
                  /\ call.returned => "model_testing" \in done
            /\ call.at # "returned" => call.returned = None

\* C25 witness: with data collection skipped, the pipeline returned True
\* although model testing reported failures
C25_Witness ==
    /\ call.op = "run_complete_pipeline"
    /\ call.at = "returned"
    /\ call.skip_data_collection
    /\ call.returned = TRUE
    /\ Len(call.steps) = 3
    /\ call.steps[3] = [step |-> "model_testing", outcome |-> "falsy"]

(***************************************************************************)
(* utils/weather_api.py: WeatherAPI                                        *)
(***************************************************************************)
\* what requests.get and the parsing of the reply can give: a reply with
\* the fields read (rain being optional), a failed request (timeout, HTTP
\* error status), or a reply without the fields (KeyError)
WeatherReplies ==
    [kind : {"ok"}, temp : {21500}, humidity : {64000}, rain : {None, [v |-> 2000]}]
    \cup { [kind |-> "failed"], [kind |-> "malformed"] }

\* the values np.random gives _generate_punjab_weather: u for the uniform
\* draws (thousandths of the range), z for the normal ones (thousandths of
\* the deviation), rains for the test against rain_prob
SyntheticDraws == [u : {0, 999}, z : {-1000, 1000}, rains : BOOLEAN]

\* _generate_punjab_weather: the ranges of the month, then the draws
_generate_punjab_weather(lat, lon, month, draw) ==
    LET temp_range == IF month \in {12, 1, 2} THEN <<8000, 22000>>
                      ELSE IF month \in {3, 4, 5} THEN <<25000, 45000>>
                      ELSE IF month \in {6, 7, 8, 9} THEN <<28000, 38000>>
                      ELSE <<18000, 32000>>
        humidity_range == IF month \in {12, 1, 2} THEN <<60000, 85000>>
                          ELSE IF month \in {3, 4, 5} THEN <<30000, 60000>>
                          ELSE IF month \in {6, 7, 8, 9} THEN <<70000, 95000>>
                          ELSE <<50000, 75000>>
        Uniform(range) == range[1] + ((range[2] - range[1]) * draw.u) \div 1000
    IN  [temperature |-> Uniform(temp_range),
         humidity |-> Uniform(humidity_range),
         pressure |-> 1013000 + 15 * draw.z,
         rainfall |-> IF draw.rains THEN 3000 ELSE 0,
         wind_speed |-> 8000 + 3 * draw.z,
         weather_description |-> "partly cloudy",
         data_source |-> "Punjab_Synthetic_Model"]

\* get_weather_openweather: None without a key or when anything raises
get_weather_openweather(openweather_key, reply) ==
    IF openweather_key \in {None, [s |-> ""]} THEN None
    ELSE IF reply.kind # "ok" THEN None
    ELSE [temperature |-> reply.temp,
          humidity |-> reply.humidity,
          pressure |-> 1013000,
          rainfall |-> IF reply.rain = None THEN 0 ELSE reply.rain.v,
          wind_speed |-> 8000,
          weather_description |-> "clear sky",
          data_source |-> "OpenWeatherMap"]

\* get_weather_free_backup whose except clause hands on the synthetic
\* weather under the name of the backup service
FreeBackupNamingItself(reply, synthetic) ==
    IF reply.kind # "ok" THEN [synthetic EXCEPT !.data_source = "Open-Meteo_Free"]
    ELSE [temperature |-> reply.temp,
          humidity |-> reply.humidity,
          pressure |-> 1013000,
          rainfall |-> IF reply.rain = None THEN 0 ELSE reply.rain.v,
          wind_speed |-> 8000,
          weather_description |-> "clear sky",
          data_source |-> "Open-Meteo_Free"]

\* get_weather_free_backup: the reply of Open-Meteo, or the synthetic
\* weather when anything raises
get_weather_free_backup(reply, synthetic) ==
    IF reply.kind # "ok" THEN synthetic
    ELSE [temperature |-> reply.temp,
          humidity |-> reply.humidity,
          pressure |-> 1013000,
          rainfall |-> IF reply.rain = None THEN 0 ELSE reply.rain.v,
          wind_speed |-> 8000,
          weather_description |-> "clear sky",
          data_source |-> "Open-Meteo_Free"]

\* what Config.OPENWEATHER_API_KEY can be
OpenWeatherKeys == {None, [s |-> ""], [s |-> "owm-key"]}

\* the coordinates asked for
WeatherPlaces == {<<30901, 75857>>, <<29000, 73000>>}

InitWeather ==
    /\ artifact = [kind |-> "missing"]
    /\ model_package = NoPredictor
    /\ model = None
    /\ model_metadata = EmptyDict
    /\ started = FALSE
    /\ random_state = 0
    /\ hash_seed = 0
    /\ API_KEY = None
    /\ api_key_file = None
    /\ gemini_model = None
    /\ chat_session = None
    /\ genai = NothingConstructed
    /\ call = Idle

\* get_weather_for_location(lat, lon) is entered on a WeatherAPI object
\* holding openweather_key; `asked` lists the sources consulted so far
GetWeatherForLocation ==
    /\ call = Idle
    /\ \E place \in WeatherPlaces, openweather_key \in OpenWeatherKeys :
          call' = [op |-> "get_weather_for_location", at |-> "openweather",
                   lat |-> place[1], lon |-> place[2],
                   openweather_key |-> openweather_key,
                   asked |-> <<>>, openweather |-> None, weather |-> None]
    /\ UNCHANGED <<artifact, model_package, model, model_metadata, started, random_state, hash_seed, API_KEY, api_key_file, gemini_model, chat_session, genai>>

\* weather = self.get_weather_openweather(lat, lon): the request is sent
\* only when a key is configured
TryOpenWeather ==
    /\ call.op = "get_weather_for_location"
    /\ call.at = "openweather"
    /\ \E reply \in IF call.openweather_key \in {None, [s |-> ""]}
                    THEN { [kind |-> "failed"] } ELSE WeatherReplies :
          LET weather == get_weather_openweather(call.openweather_key, reply)
          IN  call' = [call EXCEPT
                         !.asked = IF call.openweather_key \in {None, [s |-> ""]}
                                   THEN @ ELSE Append(@, "OpenWeatherMap"),
                         !.openweather = weather,
                         !.weather = weather,
                         !.at = IF weather = None THEN "free_backup" ELSE "return"]
    /\ UNCHANGED <<artifact, model_package, model, model_metadata, started, random_state, hash_seed, API_KEY, api_key_file, gemini_model, chat_session, genai>>

\* the branch for weather is None: self.get_weather_free_backup(lat, lon),
\* whose except clause calls the synthetic generator, and the second test
\* for None behind it
TryFreeBackup ==
    /\ call.op = "get_weather_for_location"
    /\ call.at = "free_backup"
    /\ \E reply \in WeatherReplies, month \in {1, 4, 7, 10}, draw \in SyntheticDraws :
          LET synthetic == _generate_punjab_weather(call.lat, call.lon, month, draw)
              backup    == get_weather_free_backup(reply, synthetic)
              weather   == IF backup = None THEN synthetic ELSE backup
          IN  call' = [call EXCEPT
                         !.asked = IF reply.kind = "ok" THEN Append(@, "Open-Meteo")
                                   ELSE @ \o <<"Open-Meteo", "synthetic">>,
                         !.weather = weather,
                         !.at = "return"]
    /\ UNCHANGED <<artifact, model_package, model, model_metadata, started, random_state, hash_seed, API_KEY, api_key_file, gemini_model, chat_session, genai>>

\* return weather
WeatherReturn ==
    /\ call.op = "get_weather_for_location"
    /\ call.at = "return"
    /\ call' = Idle
    /\ UNCHANGED <<artifact, model_package, model, model_metadata, started, random_state, hash_seed, API_KEY, api_key_file, gemini_model, chat_session, genai>>

NextWeather ==
    \/ GetWeatherForLocation
    \/ TryOpenWeather
    \/ TryFreeBackup
    \/ WeatherReturn

SpecWeather == InitWeather /\ [][NextWeather]_vars

(***************************************************************************)
(* Properties of get_weather_for_location                                  *)
(***************************************************************************)
\* C26: get_weather_for_location never returns None and keeps the order of
\* the fallbacks: OpenWeatherMap is tried first, Open-Meteo is consulted
\* only when OpenWeatherMap gave nothing (no key, or the request failed),
\* the synthetic generator only when both failed; data_source names the
\* source that produced the result.
C26_WeatherFallbackOrder ==
    call.op = "get_weather_for_location" =>
        /\ call.asked \in { <<>>, <<"OpenWeatherMap">>, <<"Open-Meteo">>,
                            <<"OpenWeatherMap", "Open-Meteo">>,
                            <<"Open-Meteo", "synthetic">>,
                            <<"OpenWeatherMap", "Open-Meteo", "synthetic">> }
        /\ (\E i \in 1..Len(call.asked) : call.asked[i] = "OpenWeatherMap")
              => call.openweather_key = [s |-> "owm-key"]
        /\ (\E i \in 1..Len(call.asked) : call.asked[i] = "Open-Meteo")
              => call.openweather = None
        /\ call.at = "return" =>
              /\ call.weather # None
              /\ call.weather.data_source =
                    (IF call.openweather # None THEN "OpenWeatherMap"
                     ELSE IF call.asked[Len(call.asked)] = "Open-Meteo"
                          THEN "Open-Meteo_Free"
                          ELSE "Punjab_Synthetic_Model")
              /\ call.weather.data_source = "Punjab_Synthetic_Model" <=>
                    call.asked[Len(call.asked)] = "synthetic"
              /\ call.weather.data_source = "OpenWeatherMap" =>
                    call.asked = <<"OpenWeatherMap">>

\* C26 witness: a key was configured, both services failed and the
\* synthetic weather was returned
C26_Witness ==
    /\ call.op = "get_weather_for_location"
    /\ call.at = "return"
    /\ call.asked = <<"OpenWeatherMap", "Open-Meteo", "synthetic">>
    /\ call.weather.data_source = "Punjab_Synthetic_Model"

(***************************************************************************)
(* ai_bot/backend/app: services.py and main.py                             *)
(***************************************************************************)
\* configure_gemini may be called at most MaxConfigureCalls times
MaxConfigureCalls == 2

\* the chat session holds at most MaxHistory answered queries
MaxHistory == 2

\* what the body of configure_gemini's try block can do: GOOGLE_API_KEY is
\* not set, genai.configure or GenerativeModel raises, start_chat raises,
\* or everything succeeds
ConfigureOutcomes == {"no_key", "model_fails", "start_chat_fails", "ok"}

\* configure_gemini without the test for gemini_model is None
ConfigureEveryTime(gm, cs, made, outcome) ==
    LET counted == [made EXCEPT !.calls = @ + 1]
    IN  CASE outcome \in {"no_key", "model_fails"} ->
               [gemini_model |-> gm, chat_session |-> cs, raised |-> TRUE,
                genai |-> counted]
          [] outcome = "start_chat_fails" ->
               [gemini_model |-> [name |-> "gemini-2.0-flash"], chat_session |-> cs,
                raised |-> TRUE, genai |-> [counted EXCEPT !.models = @ + 1]]
          [] outcome = "ok" ->
               [gemini_model |-> [name |-> "gemini-2.0-flash"],
                chat_session |-> [history |-> <<>>], raised |-> FALSE,
                genai |-> [counted EXCEPT !.models = @ + 1, !.sessions = @ + 1]]

\* configure_gemini(): the globals afterwards, whether it raised, and what
\* has been constructed; gemini_model is assigned before start_chat runs
configure_gemini(gm, cs, made, outcome) ==
    LET counted == [made EXCEPT !.calls = @ + 1]
    IN  IF gm # None
        THEN [gemini_model |-> gm, chat_session |-> cs, raised |-> FALSE,
              genai |-> counted]
        ELSE CASE outcome \in {"no_key", "model_fails"} ->
                    [gemini_model |-> gm, chat_session |-> cs, raised |-> TRUE,
                     genai |-> counted]
               [] outcome = "start_chat_fails" ->
                    [gemini_model |-> [name |-> "gemini-2.0-flash"], chat_session |-> cs,
                     raised |-> TRUE, genai |-> [counted EXCEPT !.models = @ + 1]]
               [] outcome = "ok" ->
                    [gemini_model |-> [name |-> "gemini-2.0-flash"],
                     chat_session |-> [history |-> <<>>], raised |-> FALSE,
                     genai |-> [counted EXCEPT !.models = @ + 1, !.sessions = @ + 1]]

\* the texts of the queries a chat session has answered, oldest first
Texts(history) == [i \in 1..Len(history) |-> history[i].text]

\* response.text of chat_session.send_message(query): the hosted model is
\* given the session's history and the query, and its reply is taken to be
\* determined by them
Answer(history, query) == [reply_to |-> query, after |-> Texts(history)]

QuotaMessage == "Your free quota is exhausted. Please wait or upgrade your plan."

Apology == "technical fault, no answer"

\* GeminiService.process_query: the value returned or the exception, and
\* the session afterwards; `outcome` is what send_message does
process_query(cs, request, outcome) ==
    IF cs = None
    THEN [raised |-> TRUE, answer |-> None, chat_session |-> cs]
    ELSE CASE outcome = "ok" ->
                [raised |-> FALSE, answer |-> Answer(cs.history, request.query.text),
                 chat_session |->
                    [cs EXCEPT !.history =
                        Append(@, [text |-> request.query.text,
                                   session_id |-> request.session_id])]]
           [] outcome = "quota" ->
                [raised |-> FALSE, answer |-> QuotaMessage, chat_session |-> cs]
           [] outcome = "error" ->
                [raised |-> FALSE, answer |-> Apology, chat_session |-> cs]

\* the constraints of QueryRequest: query min_length 1, max_length 500
ValidQuery(request) == request.query.length >= 1 /\ request.query.length <= 500

\* POST /chat as the application serves it: the validation of the body,
\* then chat_endpoint
chat_endpoint(cs, request, outcome) ==
    IF ~ValidQuery(request)
    THEN [response |-> Unprocessable, chat_session |-> cs]
    ELSE LET served == process_query(cs, request, outcome)
         IN  IF served.raised
             THEN [response |-> [status |-> 500,
                                 detail |-> "An internal error occurred. Please try again later."],
                   chat_session |-> served.chat_session]
             ELSE [response |-> [status |-> 200, answer |-> served.answer,
                                 retrieved_context |-> <<>>],
                   chat_session |-> served.chat_session]

\* the queries of the requests: their text and its length
Queries ==
    { [text |-> "", length |-> 0], [text |-> "kanak", length |-> 5],
      [text |-> "jhona", length |-> 5], [text |-> "long", length |-> 501] }

\* the session_id of a request: absent, or the id a client chose
SessionIds == {None, [s |-> "a"], [s |-> "b"]}

\* what chat_session.send_message does: it answers, the quota is exhausted
\* (ResourceExhausted), or anything else is raised
SendOutcomes == {"ok", "quota", "error"}

\* the process has imported the application: nothing is configured yet
InitChat ==
    /\ artifact = [kind |-> "missing"]
    /\ model_package = NoPredictor
    /\ model = None
    /\ model_metadata = EmptyDict
    /\ started = FALSE
    /\ random_state = 0
    /\ hash_seed = 0
    /\ API_KEY = None
    /\ api_key_file = None
    /\ gemini_model = None
    /\ chat_session = None
    /\ genai = NothingConstructed
    /\ call = Idle

\* startup_event: configure_gemini is called and an exception of it is
\* logged, so the application starts in either case
ChatStartup ==
    /\ ~started
    /\ call = Idle
    /\ started' = TRUE
    /\ \E outcome \in ConfigureOutcomes :
          LET done == configure_gemini(gemini_model, chat_session, genai, outcome)
          IN  /\ gemini_model' = done.gemini_model
              /\ chat_session' = done.chat_session
              /\ genai' = done.genai
    /\ UNCHANGED <<artifact, model_package, model, model_metadata, random_state, hash_seed, API_KEY, api_key_file, call>>

\* a further call of configure_gemini
ConfigureGemini ==
    /\ started
    /\ call = Idle
    /\ genai.calls < MaxConfigureCalls
    /\ \E outcome \in ConfigureOutcomes :
          LET done == configure_gemini(gemini_model, chat_session, genai, outcome)
          IN  /\ gemini_model' = done.gemini_model
              /\ chat_session' = done.chat_session
              /\ genai' = done.genai
              /\ call' = [op |-> "configure_gemini", outcome |-> outcome,
                          raised |-> done.raised]
    /\ UNCHANGED <<artifact, model_package, model, model_metadata, started, random_state, hash_seed, API_KEY, api_key_file>>

\* a POST /chat request; the session takes no further query once it holds
\* MaxHistory of them
ChatRequest ==
    /\ started
    /\ call = Idle
    /\ \E query \in Queries, session_id \in SessionIds, outcome \in SendOutcomes :
          LET request == [query |-> query, session_id |-> session_id]
              served  == chat_endpoint(chat_session, request, outcome)
          IN  /\ (chat_session # None /\ outcome = "ok")
                    => Len(chat_session.history) < MaxHistory
              /\ chat_session' = served.chat_session
              /\ call' = [op |-> "chat", request |-> request, outcome |-> outcome,
                          before |-> chat_session, response |-> served.response]
    /\ UNCHANGED <<artifact, model_package, model, model_metadata, started, random_state, hash_seed, API_KEY, api_key_file, gemini_model, genai>>

\* GET / of the chatbot
ReadRoot ==
    /\ started
    /\ call = Idle
    /\ call' = [op |-> "read_root", response |-> [status |-> "ok"]]
    /\ UNCHANGED <<artifact, model_package, model, model_metadata, started, random_state, hash_seed, API_KEY, api_key_file, gemini_model, chat_session, genai>>

NextChat ==
    \/ ChatStartup
    \/ ConfigureGemini
    \/ ChatRequest
    \/ ReadRoot
    \/ Return

SpecChat == InitChat /\ [][NextChat]_vars

(***************************************************************************)
(* Properties of the chatbot service                                       *)
(***************************************************************************)
\* the step is the serving of a POST /chat request whose body is valid
ValidChatServed ==
    /\ call = Idle
    /\ call'.op = "chat"
    /\ ValidQuery(call'.request)

RECURSIVE OwnHistory(_, _)
OwnHistory(history, session_id) ==
    IF history = <<>> THEN <<>>
    ELSE (IF Head(history).session_id = session_id THEN <<Head(history)>> ELSE <<>>)
         \o OwnHistory(Tail(history), session_id)

BaseYieldFor(request) ==
    DummyBaseYield(
        ApiFeatures(request,
                    estimate_parameters(request.crop, "Ludhiana", request.latitude,
                                        request.longitude, [py |-> "int", v |-> 2025], 2025),
                    StrHash(hash_seed, [s |-> Lower(request.crop)]) % 100),
        hash_seed)

\* C29: the stand-in model of crop_prediction_api selects its base yield by
\* the requested crop: for a request it serves there is another crop that,
\* with the same location and farm size, gets a different base yield, and
\* every request with the same crop, location and farm size gets the same
\* base yield.
C29_BaseYieldByCrop ==
    ServedByDummy =>
        /\ \E crop \in {"wheat", "Rice", "Tomato"} :
              BaseYieldFor([call.request EXCEPT !.crop = crop])
                  # BaseYieldFor(call.request)
        /\ \A request \in Requests :
              (/\ request.crop = call.request.crop
               /\ request.latitude = call.request.latitude
               /\ request.longitude = call.request.longitude
               /\ request.acres = call.request.acres)
                  => BaseYieldFor(request) = BaseYieldFor(call.request)


(***************************************************************************)
(* Missing input keys in predict_yield (src/prediction.py)                 *)
(***************************************************************************)
\* whether the last call is predict_yield on a loaded package whose model,
\* encoders and scaler did not raise, for an input dict whose crop type, if
\* given at all, is a string
LoadedAndQuiet ==
    /\ call.op = "predict_yield"
    /\ call.assembled
    /\ call.out.fail = "none"
    /\ "s" \in DOMAIN Get(call.input_data, K("crop_type"), [s |-> "Unknown"])

\* C30: with a loaded model package whose model, encoders and scaler do not
\* raise, predict_yield returns a success result for every input dict,
\* whichever of the keys the dict leaves out and whatever its crop type:
\* the result carries no 'error' key and has all the success fields.
C30_MissingKeysNeverFail ==
    LoadedAndQuiet =>
        /\ "error" \notin DOMAIN call.result
        /\ SuccessFields \subseteq DOMAIN call.result

============================================================================
